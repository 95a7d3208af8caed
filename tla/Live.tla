-------------------------------- MODULE Live --------------------------------
(***************************************************************************)
(* How the realtime state of an auction reaches the page that shows it:    *)
(* the events of rounds as they are emitted, the patches of the flushes    *)
(* that handlers schedule, and the snapshots the page is sent when it      *)
(* joins the room, after a reconnection, and whenever nothing has come for *)
(* a while.                                                                *)
(*                                                                         *)
(* Of the realtime state itself, whose upkeep is in Realtime, only the     *)
(* versions of the board and of the round are here; the supply goes with   *)
(* the board.  A flush or a snapshot reads the board, waits for the names  *)
(* of its users and goes on; what is sent arrives in order, but what was   *)
(* read first may be sent last.                                            *)
(*                                                                         *)
(* Left out: the lobby's room, the heartbeat (which starts only once the   *)
(* tab has been hidden, and then breaks the connection like any loss), and *)
(* the reply that a copy is recent, which no caller asks for.              *)
(***************************************************************************)
EXTENDS Naturals, FiniteSets

CONSTANTS
    Flushes,    \* bound: flushes that may run at once
    Attempts,   \* reconnectionAttempts
    MaxChanges, \* bound: events of the auction
    MaxDrops    \* bound: connections lost

ASSUME LiveAssumption ==
    /\ IsFiniteSet(Flushes) /\ "snapshot" \notin Flushes
    /\ Attempts \in Nat \ {0} /\ {MaxChanges, MaxDrops} \subseteq Nat

VARIABLES
    kept,       \* the realtime state: versions of the board and of the round, 0 for no round
    changes,    \* events so far
    ending,     \* the handler of RoundEnded is running
    pending,    \* what the next flush is to send
    timer,      \* the timer of the next flush is set
    last,       \* lastTop100Json and lastRoundJson; None before the first
    flush,      \* the flushes that run
    snapshot,   \* the snapshot being built
    connection, \* "up", "down" while socket.io tries to connect, "gone" when it has given up
    tries,      \* attempts that failed since the connection was lost
    drops,      \* connections lost so far
    room,       \* the page is open: the manager has an entry for its room
    view,       \* what the page shows
    overtaken   \* history: the page may have been sent something older than what it showed

flushing == <<pending, timer, last>>
link == <<connection, tries, drops, room>>
vars == <<kept, changes, ending, flushing, flush, snapshot, link, view, overtaken>>

Parts == {"board", "round"}
None == MaxChanges + 1
Blank == [board |-> 0, round |-> 0]

Idle == [at |-> "idle", parts |-> {}, board |-> 0]
NoSnapshot == [at |-> "idle", wanted |-> FALSE, board |-> 0, round |-> 0]

\* The client is in the auction's room on the server.
Joined == room /\ connection = "up"

Init ==
    /\ kept = Blank /\ changes = 0 /\ ending = FALSE
    /\ pending = {} /\ timer = FALSE /\ last = [board |-> None, round |-> None]
    /\ flush = [f \in Flushes |-> Idle] /\ snapshot = NoSnapshot
    /\ connection = "down" /\ tries = 0 /\ drops = 0 /\ room = FALSE
    /\ view = Blank /\ overtaken = FALSE

-----------------------------------------------------------------------------
(* The handlers and the events they pass on *)

\* Fault: nothing is added to what a flush that is scheduled will send.
MarkUnlessScheduled(parts) ==
    /\ pending' = IF timer THEN pending ELSE pending \cup parts
    /\ timer' = TRUE /\ last' = last

\* markPending and scheduleFlush
Mark(parts) == pending' = pending \cup parts /\ timer' = TRUE /\ last' = last

Displays(new) == view' = IF Joined THEN new ELSE view

\* Something is sent while a flush or a snapshot still holds what it read, or
\* a snapshot of a round that the page has been told is over.
Overtakes(sent) ==
    overtaken' = \/ overtaken
                 \/ IF sent = "snapshot" THEN ending ELSE snapshot.at = "holds"
                 \/ \E f \in Flushes \ {sent} : flush[f].at = "holds"

Changes == changes < MaxChanges /\ changes' = changes + 1
serverUnchanged == UNCHANGED <<flush, snapshot, link>>

\* onBidPlaced.  The event itself changes nothing the page shows.
BidHeard ==
    /\ Changes
    /\ kept' = [kept EXCEPT !.board = changes']
    /\ Mark({"board"})
    /\ serverUnchanged /\ UNCHANGED <<ending, view, overtaken>>

\* onRoundStarted and onRoundExtended, which the page is told of at once.  A
\* handler of RoundEnded that is still running will undo it.
RoundHeard ==
    /\ Changes
    /\ kept' = [kept EXCEPT !.round = changes']
    /\ Mark({"round"})
    /\ Displays([view EXCEPT !.round = changes'])
    /\ overtaken' = (overtaken \/ ending \/ snapshot.at = "holds")
    /\ serverUnchanged /\ UNCHANGED ending

\* round:ended goes out before onRoundEnded has changed anything.
EndHeard ==
    /\ ~ending /\ Changes
    /\ ending' = TRUE
    /\ Displays([view EXCEPT !.round = 0])
    /\ overtaken' = (overtaken \/ snapshot.at = "holds")
    /\ serverUnchanged /\ UNCHANGED <<kept, flushing>>

EndApplied ==
    /\ ending /\ ending' = FALSE
    /\ kept' = [board |-> changes, round |-> 0]
    /\ Mark(Parts)
    /\ overtaken' = (overtaken \/ snapshot.at = "holds")
    /\ serverUnchanged /\ UNCHANGED <<changes, view>>

-----------------------------------------------------------------------------
(* Flushes and snapshots *)

FlushStarts(f) ==
    /\ timer /\ flush[f].at = "idle"
    /\ flush' = [flush EXCEPT ![f] = [Idle EXCEPT !.at = "reads", !.parts = pending]]
    /\ timer' = FALSE /\ pending' = {}
    /\ UNCHANGED <<last, kept, changes, ending, snapshot, link, view, overtaken>>

FlushReads(f) ==
    /\ flush[f].at = "reads"
    /\ flush' = [flush EXCEPT ![f].at = "holds",
                              ![f].board = IF "board" \in flush[f].parts THEN kept.board ELSE 0]
    /\ UNCHANGED <<flushing, kept, changes, ending, snapshot, link, view, overtaken>>

\* What a flush asked for some parts sends: those that it has not sent last.
Patch(parts, read) == {p \in parts : read[p] # last[p]}

FlushSends(f) ==
    LET parts == flush[f].parts
        read == [board |-> flush[f].board, round |-> kept.round]
    IN  /\ flush[f].at = "holds"
        /\ last' = [p \in Parts |-> IF p \in parts THEN read[p] ELSE last[p]]
        /\ Displays([p \in Parts |-> IF p \in Patch(parts, read) THEN read[p] ELSE view[p]])
        /\ Overtakes(f)
        /\ flush' = [flush EXCEPT ![f] = Idle]
        /\ UNCHANGED <<pending, timer, kept, changes, ending, snapshot, link>>

\* join:auction or sync:auction reaches the gateway.
Asks == snapshot.at = "idle" /\ snapshot' = [NoSnapshot EXCEPT !.at = "reads", !.wanted = TRUE]

\* buildSnapshot reads the round, then the board.
SnapshotReads ==
    /\ snapshot.at = "reads"
    /\ snapshot' = [snapshot EXCEPT !.at = "holds", !.board = kept.board, !.round = kept.round]
    /\ UNCHANGED <<kept, changes, ending, flushing, flush, link, view, overtaken>>

\* Fault: a snapshot only fills a page that shows nothing.
TakenOnce == IF view = Blank THEN [board |-> snapshot.board, round |-> snapshot.round] ELSE view

\* onAuctionSnapshot replaces what the page shows.
Taken == [board |-> snapshot.board, round |-> snapshot.round]

SnapshotSends ==
    /\ snapshot.at = "holds"
    /\ view' = IF Joined /\ snapshot.wanted THEN Taken ELSE view
    /\ snapshot' = NoSnapshot
    /\ Overtakes("snapshot")
    /\ UNCHANGED <<kept, changes, ending, flushing, flush, link>>

-----------------------------------------------------------------------------
(* The page and the manager of the connection *)

Unsent == UNCHANGED <<kept, changes, ending, flushing, flush, overtaken>>
Forgotten == snapshot' = [snapshot EXCEPT !.wanted = FALSE]

\* useWebSocket calls joinAuction.
Open ==
    /\ ~room /\ room' = TRUE
    /\ IF connection = "up" THEN Asks ELSE UNCHANGED snapshot
    /\ Unsent /\ UNCHANGED <<connection, tries, drops, view>>

\* leaveAuction; what the page showed is gone.
Close ==
    /\ room /\ room' = FALSE /\ view' = Blank
    /\ Forgotten
    /\ Unsent /\ UNCHANGED <<connection, tries, drops>>

Drop ==
    /\ connection = "up" /\ drops < MaxDrops
    /\ connection' = "down" /\ drops' = drops + 1
    /\ Forgotten
    /\ Unsent /\ UNCHANGED <<tries, room, view>>

\* handleReconnect joins the room again.
Connect ==
    /\ connection = "down"
    /\ connection' = "up" /\ tries' = 0
    /\ IF room THEN Asks ELSE UNCHANGED snapshot
    /\ Unsent /\ UNCHANGED <<drops, room, view>>

\* After its last attempt socket.io stops, and connect() of the manager,
\* which finds a socket, does not start it again.
FailToConnect ==
    /\ connection = "down"
    /\ tries' = tries + 1
    /\ connection' = IF tries' = Attempts THEN "gone" ELSE "down"
    /\ Unsent /\ UNCHANGED <<snapshot, drops, room, view>>

\* The interval finds that nothing has come for a while.
Resync ==
    /\ Joined /\ Asks
    /\ Unsent /\ UNCHANGED <<link, view>>

FlushWorks(f) == FlushStarts(f) \/ FlushReads(f) \/ FlushSends(f)
SnapshotWorks == SnapshotReads \/ SnapshotSends

Next ==
    \/ BidHeard \/ RoundHeard \/ EndHeard \/ EndApplied
    \/ \E f \in Flushes : FlushWorks(f)
    \/ SnapshotWorks
    \/ Open \/ Close \/ Drop \/ Connect \/ FailToConnect \/ Resync

Spec == Init /\ [][Next]_vars

\* A snapshot that was asked for is built, socket.io keeps trying, and the
\* manager's interval keeps looking for rooms that have gone quiet.  That
\* flushes come to an end is not needed.
Fairness == WF_vars(SnapshotWorks) /\ WF_vars(Connect) /\ WF_vars(Resync)

FairSpec == Spec /\ Fairness

-----------------------------------------------------------------------------
(* Properties *)

\* The variables have their types.
TypeOK ==
    /\ kept \in [Parts -> 0..MaxChanges] /\ view \in [Parts -> 0..MaxChanges]
    /\ last \in [Parts -> 0..None] /\ pending \subseteq Parts
    /\ \A f \in Flushes : flush[f].at \in {"idle", "reads", "holds"}
    /\ snapshot.at \in {"idle", "reads", "holds"} /\ snapshot.wanted \in BOOLEAN
    /\ connection \in {"up", "down", "gone"} /\ tries \in 0..Attempts
    /\ {timer, ending, room, overtaken} \subseteq BOOLEAN

\* Nothing is on its way.
Quiet == ~timer /\ ~ending /\ snapshot.at = "idle" /\ \A f \in Flushes : flush[f].at = "idle"

\* Every change of the realtime state is followed by a flush that reads it,
\* whatever was pending or running when it came, and what a flush leaves out
\* because it was sent last is what the page shows: when nothing is on its
\* way a page in the room shows the realtime state, unless something it was
\* sent had been read before what it already showed.
ShowsUnlessOvertaken == Quiet /\ Joined /\ ~overtaken => view = kept

\* A page that stays open shows the realtime state in the end, whatever
\* overtook what and whenever the connection was lost: the silence that
\* follows makes the manager ask for a snapshot, unless socket.io gave up.
InTheEndShown ==
    \/ <>[](connection = "gone")
    \/ []<>(~room)
    \/ <>[](view = kept)

=============================================================================
