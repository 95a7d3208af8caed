------------------------------ MODULE Accounts ------------------------------
(***************************************************************************)
(* How accounts come to be: people register on the website, Telegram's     *)
(* users get an account with their first request, an administrator creates *)
(* users for bots, and every process makes sure of the administrator when  *)
(* it starts.  All of them look first and save later, and several may be   *)
(* doing so at once; only the unique index of the username decides.        *)
(*                                                                         *)
(* A Telegram user opens the page in a webview that sends two requests at  *)
(* once: AuthContext asks who the user is, with initData in a header, and  *)
(* the login page signs the user in.  The username made from a Telegram id *)
(* ("tg" and the id) is one that anybody may register on the website; here *)
(* it is the id itself.                                                    *)
(*                                                                         *)
(* Users are found by these names again when somebody makes them the       *)
(* recipient of a bid: once by the page, which asks the giver to confirm,  *)
(* and once by the server.                                                 *)
(*                                                                         *)
(* Left out: passwords, but for whose they are; requests that fail on      *)
(* their way (see Session for the ones that sign in); the refreshing of a  *)
(* token, which copies it; deposits (see Ledger); what a bid does but for  *)
(* its recipient (see Auction), and what a bot does (see Bots).            *)
(***************************************************************************)
EXTENDS Naturals, FiniteSets

CONSTANTS
    People,      \* who registers; Operator is the one who configures the administrator
    Operator,
    TelegramIds,
    Names,       \* usernames that people choose
    AdminName,   \* ADMIN_USERNAME
    BotNames,    \* usernames an administrator creates
    Apis,        \* the processes that serve the API
    MaxRequests, \* bound: requests that are served at once
    MaxAccounts, \* bound
    MaxStops     \* bound: processes that stop

ASSUME AccountsAssumption ==
    /\ Operator \notin People /\ AdminName \in Names
    /\ TelegramIds \cap (People \cup {Operator}) = {}
    /\ BotNames \cap (Names \cup TelegramIds) = {}
    /\ IsFiniteSet(Apis) /\ {MaxRequests, MaxAccounts, MaxStops} \subseteq Nat

VARIABLES
    accounts, \* the documents
    requests, \* what is being served: by whom, for which name, at what step
    tokens,   \* what has been answered: by whom, for which name, with which account and roles
    api,      \* "down", "checking" or "creating" the administrator, or "up"
    ended     \* processes that stopped so far

vars == <<accounts, requests, tokens, api, ended>>

\* of: whose password, or whose Telegram id; nobody's for a user created for a bot.
Account(id, name, provider, of, roles) ==
    [id |-> id, name |-> name, provider |-> provider, of |-> of, roles |-> roles,
     paid |-> FALSE, bot |-> FALSE]
Nobody == "nobody"

\* USERNAME_REGEX: what may be registered.  A bot's name begins with "_bot".
Registrable == Names \cup TelegramIds

\* Fault: usernames are not unique.
NothingTaken(name) == {}

\* The unique index of the username.
Taken(name) == {a \in accounts : a.name = name}

WebAccounts(name) == {a \in accounts : a.name = name /\ a.provider = "web"}
TelegramAccounts(t) == {a \in accounts : a.provider = "telegram" /\ a.of = t}

\* The users that a username or a Telegram id finds, for the page and for placeBid.
Lookup(kind, value) ==
    IF kind = "username" THEN {a \in accounts : a.name = value} ELSE TelegramAccounts(value)
Ids(found) == {a.id : a \in found}

\* detectRecipient: what may be typed; not the name of a bot's user.
Recipient == ({"username"} \X Registrable) \cup ({"telegramId"} \X TelegramIds)

Token(by, name, a) == [by |-> by, name |-> name, account |-> a.id, roles |-> a.roles]

\* A save fails with E11000 when the username is taken.
Adds(name, provider, of, roles) ==
    /\ Taken(name) = {} /\ Cardinality(accounts) < MaxAccounts
    /\ accounts' = accounts \cup {Account(Cardinality(accounts) + 1, name, provider, of, roles)}

-----------------------------------------------------------------------------

\* at: its step, or how the recipient of a bid is named; shown: whom the giver confirmed
Request(kind, by, name, at, where) ==
    [kind |-> kind, by |-> by, name |-> name, at |-> at, where |-> where, shown |-> {}]

TypeOK ==
    /\ \A a \in accounts : /\ a.provider \in {"web", "telegram", "legacy"}
                           /\ a.name \in Registrable \cup BotNames
                           /\ a.roles \subseteq {"user", "admin"}
    /\ \A r \in requests : r.kind \in {"register", "telegram", "header", "create", "bid"} /\ r.where \in Apis
    /\ api \in [Apis -> {"down", "checking", "creating", "up"}] /\ ended \in 0..MaxStops

\* The name of the administrator may be one that somebody registered before it was configured.
Init ==
    /\ \/ accounts = {}
       \/ \E p \in People : accounts = {Account(1, AdminName, "web", p, {"user"})}
    /\ requests = {} /\ tokens = {}
    /\ api = [a \in Apis |-> "down"] /\ ended = 0

Served(new) ==
    /\ requests \cap new = {} /\ Cardinality(requests \cup new) <= MaxRequests
    /\ requests' = requests \cup new

\* registerWeb: the username is looked for ...
Registers(p, name, where) ==
    /\ api[where] = "up" /\ name \in Registrable
    /\ Taken(name) = {}
    /\ Served({Request("register", p, name, "save", where)})
    /\ UNCHANGED <<accounts, tokens, api, ended>>

\* ... and saved when the password has been hashed.
SavesRegistration(r) ==
    /\ r.kind = "register" /\ requests' = requests \ {r}
    /\ \/ /\ Adds(r.name, "web", r.by, {"user"})
          /\ \E a \in accounts' \ accounts : tokens' = tokens \cup {Token(r.by, r.name, a)}
       \/ Taken(r.name) # {} /\ UNCHANGED <<accounts, tokens>>
    /\ UNCHANGED <<api, ended>>

\* loginWeb: the password is that of the account that was found.
LogsIn(p, name, where) ==
    /\ api[where] = "up"
    /\ \E a \in WebAccounts(name) : a.of = p /\ tokens' = tokens \cup {Token(p, name, a)}
    /\ UNCHANGED <<accounts, requests, api, ended>>

\* What the webview sends: restoreAuth asks who the user is, with initData in a header, ...
RestoresAuth(t, where) == Request("header", t, t, "find", where)

\* ... and loginTelegram signs the user in.
LogsInTelegram(t, where) == Request("telegram", t, t, "find", where)

\* The page's first effect and that of its login page: both are underway at once.
OpensWebView(t, where) ==
    /\ api[where] = "up"
    /\ Served({RestoresAuth(t, where), LogsInTelegram(t, where)})
    /\ UNCHANGED <<accounts, tokens, api, ended>>

\* DualAuthGuard goes on with the account, POST /auth/telegram answers with a token for it:
\* here both count as tokens.
ActsAs(r, a) == tokens' = tokens \cup {Token(r.by, r.name, a)}

\* ensureTelegramUser: the account of the Telegram id, ...
FindsTelegramUser(r) ==
    /\ r.kind \in {"telegram", "header"} /\ r.at = "find"
    /\ IF TelegramAccounts(r.by) = {}
       THEN requests' = (requests \ {r}) \cup {[r EXCEPT !.at = "save"]} /\ UNCHANGED tokens
       ELSE /\ requests' = requests \ {r}
            /\ \E a \in TelegramAccounts(r.by) : ActsAs(r, a)
    /\ UNCHANGED <<accounts, api, ended>>

\* ... or a new one.
SavesTelegramUser(r) ==
    /\ r.kind \in {"telegram", "header"} /\ r.at = "save" /\ requests' = requests \ {r}
    /\ \/ /\ Adds(r.name, "telegram", r.by, {"user"})
          /\ \E a \in accounts' \ accounts : ActsAs(r, a)
       \/ Taken(r.name) # {} /\ UNCHANGED <<accounts, tokens>>
    /\ UNCHANGED <<api, ended>>

\* RolesGuard: the roles are those of the token.
MayCreate(token) == "admin" \in token.roles

\* UsersService.create: the user is saved with nothing ...
CreatesUser(token, name, where) ==
    /\ api[where] = "up" /\ MayCreate(token)
    /\ Adds(name, "legacy", Nobody, {"user"})
    /\ Served({Request("create", token.by, name, "deposit", where)})
    /\ UNCHANGED <<tokens, api, ended>>

\* ... and gets its balance in a transaction of its own.
PaysUser(r) ==
    /\ r.kind = "create" /\ r.at = "deposit"
    /\ requests' = (requests \ {r}) \cup {[r EXCEPT !.at = "bot"]}
    /\ accounts' = {IF a.name = r.name THEN [a EXCEPT !.paid = TRUE] ELSE a : a \in accounts}
    /\ UNCHANGED <<tokens, api, ended>>

\* handleCreateBot goes on with the user that was created: BotsService.create.
CreatesBot(r) ==
    /\ r.kind = "create" /\ r.at = "bot" /\ requests' = requests \ {r}
    /\ accounts' = {IF a.name = r.name THEN [a EXCEPT !.bot = TRUE] ELSE a : a \in accounts}
    /\ UNCHANGED <<tokens, api, ended>>

\* handlePlaceBid: the page looks for the recipient, and the giver confirms.
Offers(token, recipient, where) ==
    /\ api[where] = "up"
    /\ LET shown == Lookup(recipient[1], recipient[2])
       IN /\ shown # {}
          /\ Served({[Request("bid", token.by, recipient[2], recipient[1], where)
                        EXCEPT !.shown = Ids(shown)]})
    /\ UNCHANGED <<accounts, tokens, api, ended>>

\* placeBid looks for the recipient again: see OneAccountEach.
Gives(r) ==
    /\ r.kind = "bid" /\ requests' = requests \ {r}
    /\ UNCHANGED <<accounts, tokens, api, ended>>

-----------------------------------------------------------------------------
(* Processes. *)

Launches(a) ==
    /\ api[a] = "down" /\ api' = [api EXCEPT ![a] = "checking"]
    /\ UNCHANGED <<accounts, requests, tokens, ended>>

\* onApplicationBootstrap: an account that is there becomes the administrator's, ...
ChecksAdmin(a) ==
    /\ api[a] = "checking"
    /\ IF WebAccounts(AdminName) = {} THEN api' = [api EXCEPT ![a] = "creating"] /\ UNCHANGED accounts
       ELSE /\ api' = [api EXCEPT ![a] = "up"]
            /\ \E found \in WebAccounts(AdminName) :
                 accounts' = (accounts \ {found}) \cup {[found EXCEPT !.roles = @ \cup {"admin"}]}
    /\ UNCHANGED <<requests, tokens, ended>>

\* ... or one is created; when that fails the process exits and is started again.
CreatesAdmin(a) ==
    /\ api[a] = "creating"
    /\ \/ Adds(AdminName, "web", Operator, {"admin"}) /\ api' = [api EXCEPT ![a] = "up"]
       \/ Taken(AdminName) # {} /\ UNCHANGED accounts /\ api' = [api EXCEPT ![a] = "down"]
    /\ UNCHANGED <<requests, tokens, ended>>

\* A process stops, with what it was serving.
Exits(a) ==
    /\ api[a] # "down" /\ ended < MaxStops
    /\ ended' = ended + 1 /\ api' = [api EXCEPT ![a] = "down"]
    /\ requests' = {r \in requests : r.where # a}
    /\ UNCHANGED <<accounts, tokens>>

-----------------------------------------------------------------------------

Serving ==
    \E r \in requests :
        SavesRegistration(r) \/ FindsTelegramUser(r) \/ SavesTelegramUser(r)
        \/ PaysUser(r) \/ CreatesBot(r) \/ Gives(r)

Asking ==
    \E where \in Apis :
        \/ \E p \in People, name \in Registrable : Registers(p, name, where)
        \/ \E p \in People \cup {Operator}, name \in Registrable : LogsIn(p, name, where)
        \/ \E t \in TelegramIds : OpensWebView(t, where)
        \/ \E token \in tokens, name \in BotNames : CreatesUser(token, name, where)
        \/ \E token \in tokens, recipient \in Recipient : Offers(token, recipient, where)

Next ==
    \/ Asking \/ Serving
    \/ \E a \in Apis : Launches(a) \/ ChecksAdmin(a) \/ CreatesAdmin(a) \/ Exits(a)

Spec == Init /\ [][Next]_vars

-----------------------------------------------------------------------------
(* Properties. *)

\* Whoever was let in was let in to an account of their own, and the others who name them, as
\* the recipient of a gift, find that account and no other: however many first requests are
\* served at once, there is one account (auth.service.ts, telegram-users.service.ts: look,
\* then save).  Whom the server makes the recipient of a bid is whom the page found before
\* the giver confirmed, and a bot plays with the money of its user.
OneAccountEach ==
    /\ \A x \in tokens :
        /\ Ids(Lookup("username", x.name)) = {x.account}
        /\ x.by \in TelegramIds => Ids(Lookup("telegramId", x.by)) = {x.account}
        /\ \A a \in Lookup("username", x.name) : a.of = x.by
    /\ \A r \in requests : r.kind = "bid" => Ids(Lookup(r.at, r.name)) = r.shown
    /\ \A a \in accounts : a.bot => a.paid
=============================================================================
