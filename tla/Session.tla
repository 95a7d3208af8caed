------------------------------ MODULE Session ------------------------------
(***************************************************************************)
(* Who is signed in: the token in localStorage, which the tabs of a        *)
(* browser share and none of them watches, and in each tab the user it     *)
(* shows, the token its websocket speaks with, the timer that renews the   *)
(* token before it expires, and the requests that go out with whatever     *)
(* token is in the storage and are acted upon whenever their answer comes. *)
(*                                                                         *)
(* A token is its user and the time it has left.  The server signs tokens  *)
(* and keeps none: an answer depends on the token that was sent.           *)
(*                                                                         *)
(* Left out: Telegram's initData, which repeats the sign-in when a token   *)
(* is refused, and ensureAuthenticated, which nothing calls.               *)
(***************************************************************************)
EXTENDS Integers, FiniteSets, FiniteSetsExt

CONSTANTS
    Users, None,
    Tabs,
    Life,       \* JWT_EXPIRES_IN_SEC
    Soon,       \* how long before the end a token is renewed: 60 to 120 s in the code
    Grace,      \* JWT_REFRESH_GRACE_SEC
    MaxFlows,   \* bound: things the tabs wait for at once
    MaxTroubles \* bound: requests lost and users the server forgets, together

\* What the constants are; the module that instantiates this one assumes it.
SessionAssumption ==
    /\ None \notin Users
    /\ {Life, Soon, Grace, MaxTroubles} \subseteq Nat /\ MaxFlows \in Nat \ {0}
    /\ Soon < Life

VARIABLES
    storage,   \* localStorage.accessToken
    tab,       \* what each tab shows and has scheduled
    flows,     \* what each tab waits for
    gone,      \* users the server no longer has
    losses,    \* requests lost so far
    crossed,   \* history, by tab: its session has ended, or the storage is another's
    renewed    \* history, by tab: the token was renewed behind its websocket's back

vars == <<storage, tab, flows, gone, losses, crossed, renewed>>

Token == [user : Users \cup {None}, left : -Grace..Life]
NoToken == [user |-> None, left |-> 0]
Issued(u) == [user |-> u, left |-> Life]

\* mine is the accessToken of React's state, which only this tab sets.
Closed == [open |-> FALSE, awake |-> FALSE, user |-> None, mine |-> NoToken, ws |-> NoToken,
           timer |-> NoToken]

Flow == [why : {"renew", "visit", "restore", "login"}, at : {"token", "me"},
         sent : Token]

TypeOK ==
    /\ storage \in Token
    /\ tab \in [Tabs -> [open : BOOLEAN, awake : BOOLEAN, user : Users \cup {None},
                         mine : Token, ws : Token, timer : Token]]
    /\ flows \in [Tabs -> SUBSET Flow]
    /\ gone \subseteq Users /\ losses \in 0..MaxTroubles
    /\ crossed \in [Tabs -> BOOLEAN] /\ renewed \in [Tabs -> BOOLEAN]

Init ==
    /\ storage = NoToken
    /\ tab = [t \in Tabs |-> Closed] /\ flows = [t \in Tabs |-> {}]
    /\ gone = {} /\ losses = 0
    /\ crossed = [t \in Tabs |-> FALSE] /\ renewed = [t \in Tabs |-> FALSE]

ShouldRefreshSoon(token) == token.left <= Soon

\* The session of a tab other than t is not the storage's once token is there.
CrossedBy(t, token) ==
    [o \in Tabs |-> crossed[o] \/ (o # t /\ tab[o].user \notin {None, token.user})]
RenewedBy(t) == [o \in Tabs |-> o # t /\ (renewed[o] \/ tab[o].user # None)]

Forgotten(t) == crossed' = [crossed EXCEPT ![t] = FALSE] /\ renewed' = [renewed EXCEPT ![t] = FALSE]

Waits(t, flow) ==
    /\ flow \notin flows[t]
    /\ MapThenSumSet(LAMBDA o : Cardinality(flows[o]), Tabs) < MaxFlows
    /\ flows' = [flows EXCEPT ![t] = @ \cup {flow}]

-----------------------------------------------------------------------------
(* A tab opens, is left, is looked at *)

\* restoreAuth: a token that is there is tried.
Opens(t) ==
    /\ ~tab[t].open
    /\ tab' = [tab EXCEPT ![t] = [Closed EXCEPT !.open = TRUE, !.awake = TRUE, !.mine = storage]]
    /\ IF storage = NoToken THEN UNCHANGED flows
       ELSE Waits(t, [why |-> "restore", sent |-> storage,
                      at |-> IF ShouldRefreshSoon(storage) THEN "token" ELSE "me"])
    /\ UNCHANGED <<storage, gone, losses, crossed, renewed>>

Closes(t) ==
    /\ tab[t].open
    /\ tab' = [tab EXCEPT ![t] = Closed] /\ flows' = [flows EXCEPT ![t] = {}]
    /\ Forgotten(t)
    /\ UNCHANGED <<storage, gone, losses>>

\* The browser stops a tab in the background, or the computer sleeps.  A tab that shows
\* nobody sleeps through nothing.
Sleeps(t) ==
    /\ tab[t].awake /\ tab[t].user # None /\ flows[t] = {}
    /\ tab' = [tab EXCEPT ![t].awake = FALSE]
    /\ UNCHANGED <<storage, flows, gone, losses, crossed, renewed>>

\* onFocus, onVisibility
Looked(t) ==
    /\ tab[t].open
    /\ tab' = [tab EXCEPT ![t].awake = TRUE]
    /\ IF storage = NoToken \/ ~ShouldRefreshSoon(storage) THEN UNCHANGED flows
       ELSE Waits(t, [why |-> "renew", at |-> "token", sent |-> storage])
    /\ UNCHANGED <<storage, gone, losses, crossed, renewed>>

\* refreshUser, which pages call when they open and when something happens in an auction
Visits(t) ==
    /\ tab[t].awake /\ tab[t].user # None
    /\ Waits(t, [why |-> "visit", sent |-> storage,
                 at |-> IF storage # NoToken /\ ShouldRefreshSoon(storage)
                        THEN "token" ELSE "me"])
    /\ UNCHANGED <<storage, tab, gone, losses, crossed, renewed>>

-----------------------------------------------------------------------------
(* The timer *)

\* Fault: a token that another tab has put there is left to that tab.
RescheduledNever(t) == NoToken

\* scheduleRefresh(current)
Rescheduled(t) == storage

Due(t) == tab[t].timer # NoToken /\ ShouldRefreshSoon(tab[t].timer)

Fires(t) ==
    /\ tab[t].awake /\ Due(t)
    /\ IF storage = tab[t].timer
       THEN /\ Waits(t, [why |-> "renew", at |-> "token", sent |-> storage])
            /\ tab' = [tab EXCEPT ![t].timer = NoToken]
       ELSE tab' = [tab EXCEPT ![t].timer = Rescheduled(t)] /\ UNCHANGED flows
    /\ UNCHANGED <<storage, gone, losses, crossed, renewed>>

-----------------------------------------------------------------------------
(* Signing in and out *)

\* login and register; the pages behind PrivateRoute have no such form.
SignsIn(t, u) ==
    /\ tab[t].awake /\ tab[t].user = None /\ u \notin gone
    /\ \A f \in flows[t] : f.why # "login"
    /\ Waits(t, [why |-> "login", at |-> "token", sent |-> Issued(u)])
    /\ UNCHANGED <<storage, tab, gone, losses, crossed, renewed>>

\* Fault: clearAuthStorage alone.
ClearedStorage(t) == storage' = NoToken /\ UNCHANGED <<tab, crossed, renewed>>

\* clearAuthStorage and resetAuthState, in tab t
Cleared(t) ==
    /\ storage' = NoToken
    /\ tab' = [tab EXCEPT ![t].user = None, ![t].mine = NoToken, ![t].ws = NoToken,
                          ![t].timer = NoToken]
    /\ crossed' = [CrossedBy(t, NoToken) EXCEPT ![t] = FALSE]
    /\ renewed' = RenewedBy(t)

\* Nothing that is waited for is given up.
SignsOut(t) ==
    /\ tab[t].awake /\ tab[t].user # None
    /\ Cleared(t)
    /\ UNCHANGED <<flows, gone, losses>>

-----------------------------------------------------------------------------
(* Answers *)

Ends(t, f) == flows' = [flows EXCEPT ![t] = @ \ {f}]

\* usersService.me() goes out with the token that is in the storage by then.
GoesOnToMe(t, f, token) ==
    flows' = [flows EXCEPT ![t] = (@ \ {f}) \cup {[f EXCEPT !.at = "me", !.sent = token]}]

\* Who refreshes schedules the next one; so does React when the token of a known user changes.
TimerFor(t, f, token) ==
    IF f.why = "renew" \/ tab[t].user # None THEN token ELSE tab[t].timer

\* applyAccessToken
Applies(t, f, token) ==
    /\ storage' = token
    /\ tab' = [tab EXCEPT ![t].mine = token, ![t].ws = token, ![t].timer = TimerFor(t, f, token)]
    /\ crossed' = [CrossedBy(t, token) EXCEPT
                     ![t] = @ \/ tab[t].user \notin {None, token.user}]
    /\ renewed' = RenewedBy(t)

\* The server renews a token up to Grace after its end; signing in gives a new one.
Renewable(f) == f.why = "login" \/ (f.sent # NoToken /\ f.sent.left > -Grace)

TokenComes(t, f) ==
    /\ f.at = "token" /\ Renewable(f)
    /\ Applies(t, f, Issued(f.sent.user))
    /\ IF f.why = "renew" THEN Ends(t, f) ELSE GoesOnToMe(t, f, Issued(f.sent.user))
    /\ UNCHANGED <<gone, losses>>

\* Who wanted the token only for the next request goes on without.
TokenRefused(t, f) ==
    /\ f.at = "token"
    /\ IF f.why \in {"visit", "restore"} THEN GoesOnToMe(t, f, storage) ELSE Ends(t, f)
    /\ UNCHANGED <<storage, tab, renewed>>

Accepted(f) == f.sent # NoToken /\ f.sent.left > 0

\* applyAuthenticatedUser, or setUser of a visit, with a user.  React schedules the token it
\* has when the user changes.
MeComes(t, f) ==
    LET signing == f.why \in {"restore", "login"}
        mine == tab[t].mine
    IN  /\ f.at = "me" /\ Accepted(f) /\ f.sent.user \notin gone
        /\ tab' = [tab EXCEPT
              ![t].user = f.sent.user,
              ![t].ws = IF signing THEN f.sent ELSE @,
              ![t].timer = IF tab[t].user # f.sent.user /\ mine # NoToken THEN mine
                           ELSE IF signing THEN f.sent ELSE @]
        /\ crossed' = [crossed EXCEPT
              ![t] = (@ /\ ~signing) \/ f.sent.user # IF signing THEN storage.user ELSE tab[t].user]
        /\ renewed' = [renewed EXCEPT ![t] = IF signing THEN storage # f.sent ELSE @]
        /\ Ends(t, f)
        /\ UNCHANGED <<storage, gone, losses>>

\* The server knows the token's user no more.
MeIsNull(t, f) ==
    /\ f.at = "me" /\ Accepted(f) /\ f.sent.user \in gone
    /\ Cleared(t) /\ Ends(t, f)
    /\ UNCHANGED <<gone, losses>>

\* restoreAuth clears everything; login throws and leaves the token; a visit goes on as it was.
MeFails(t, f) ==
    /\ f.at = "me"
    /\ IF f.why = "restore" THEN Cleared(t) ELSE UNCHANGED <<storage, tab, crossed, renewed>>
    /\ Ends(t, f)

Refused(t, f) ==
    /\ \/ /\ ~Renewable(f) /\ TokenRefused(t, f)
          /\ crossed' = [crossed EXCEPT ![t] = tab[t].user # None]
       \/ ~Accepted(f) /\ MeFails(t, f)
    /\ UNCHANGED <<gone, losses>>

Lost(t, f) ==
    /\ losses + Cardinality(gone) < MaxTroubles
    /\ losses' = losses + 1
    /\ \/ TokenRefused(t, f) /\ crossed' = crossed
       \/ MeFails(t, f)
    /\ UNCHANGED gone

\* The database is reset under a user who is signed in.
Forgets(u) ==
    /\ u \notin gone /\ losses + Cardinality(gone) < MaxTroubles
    /\ gone' = gone \cup {u}
    /\ UNCHANGED <<storage, tab, flows, losses, crossed, renewed>>

-----------------------------------------------------------------------------
(* Time.  Tabs that are awake are quick: their timers fire and their answers come before *)
(* the next tick.                                                                        *)

Older(token) == IF token.user = None \/ token.left = -Grace THEN token
                ELSE [token EXCEPT !.left = @ - 1]

Tick ==
    /\ \A t \in Tabs : flows[t] = {} /\ (tab[t].awake => ~Due(t))
    /\ storage' = Older(storage)
    /\ tab' = [t \in Tabs |-> [tab[t] EXCEPT !.mine = Older(@), !.ws = Older(@),
                                             !.timer = Older(@)]]
    /\ UNCHANGED <<flows, gone, losses, crossed, renewed>>

Answers(t, f) ==
    TokenComes(t, f) \/ MeComes(t, f) \/ MeIsNull(t, f) \/ Refused(t, f) \/ Lost(t, f)

Next ==
    \/ \E t \in Tabs :
          \/ Opens(t) \/ Closes(t) \/ Sleeps(t) \/ Looked(t) \/ Visits(t) \/ Fires(t)
          \/ SignsOut(t) \/ \E u \in Users : SignsIn(t, u)
          \/ tab[t].awake /\ \E f \in flows[t] : Answers(t, f)
    \/ \E u \in Users : Forgets(u)
    \/ Tick

Spec == Init /\ [][Next]_vars

-----------------------------------------------------------------------------
(* Properties *)

\* A tab that shows a user sends its requests as that user, and its websocket speaks with
\* the same token.  The exceptions: another tab signed in or out, the server no longer
\* renews the token, or an answer came to a request of a session that had ended (crossed);
\* the token was renewed by another tab, or while this one was signing in, of which its
\* websocket learns nothing (renewed).
ActsAsShown ==
    \A t \in Tabs : tab[t].user # None /\ ~crossed[t] =>
        /\ storage.user = tab[t].user
        /\ tab[t].ws = storage \/ renewed[t]

\* README.md: the token is renewed as long as the user has the application open.  The token
\* of a tab that shows a user is good, unless the tab waits for an answer, its timer is about
\* to fire (in a tab that sleeps, when it is looked at again), the session is not its own any
\* more, or a request for a token failed, after which nothing tries again until the user does
\* something.
SessionKept ==
    \A t \in Tabs :
        (tab[t].user # None /\ flows[t] = {} /\ ~Due(t) /\ ~crossed[t] /\ losses = 0)
        => storage.left > 0

=============================================================================
