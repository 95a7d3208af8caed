--------------------------- MODULE SessionProofs ----------------------------
(***************************************************************************)
(* Theorems about Accounts and about Session.  Of Accounts: whoever looks  *)
(* first and saves later, a name, a Telegram id and a token mean one       *)
(* account.  Of Session: a tab acts as the user it shows, and the token of *)
(* a user who is shown does not run out.                                   *)
(*                                                                         *)
(* The two have MCSession in common, which names the state of Session S.   *)
(***************************************************************************)
EXTENDS MCSession, Integers, TLAPS

-----------------------------------------------------------------------------
(* The inductive invariant. *)

\* The fields of an account and of a request.
IsAccount(a) ==
    a = [id |-> a.id, name |-> a.name, provider |-> a.provider, of |-> a.of, roles |-> a.roles,
         paid |-> a.paid, bot |-> a.bot]
IsRequest(r) ==
    r = [kind |-> r.kind, by |-> r.by, name |-> r.name, at |-> r.at, where |-> r.where,
         shown |-> r.shown]

\* No two accounts have one name, and that of a Telegram user is made from the Telegram id.
Sound(A) ==
    /\ \A a \in A : /\ IsAccount(a)
                    /\ a.provider = "telegram" => a.of = a.name
                    /\ a.bot => a.paid
    /\ \A a, b \in A : a.name = b.name => a = b

\* The account that a token was given for.
Given(x, A) ==
    \E a \in A : /\ a.id = x.account /\ a.name = x.name /\ a.of = x.by
                 /\ x.by \in TelegramIds => a.provider = "telegram"

\* What a request that is being served has found, or is made of.
Backed(r, A) ==
    /\ IsRequest(r)
    /\ r.kind \in {"register", "telegram", "header", "create", "bid"}
    /\ r.kind = "register" => r.by \in People
    /\ r.kind \in {"telegram", "header"} => r.by \in TelegramIds /\ r.name = r.by
    /\ r.kind = "create" => \E a \in A : a.name = r.name /\ (r.at = "bot" => a.paid)
    /\ r.kind = "bid" =>
          \E a \in A : /\ a.name = r.name /\ r.shown = {a.id}
                       /\ \/ r.at = "username"
                          \/ r.at = "telegramId" /\ a.provider = "telegram"

IInv ==
    /\ Sound(accounts)
    /\ \A x \in tokens : Given(x, accounts)
    /\ \A r \in requests : Backed(r, accounts)

-----------------------------------------------------------------------------
(* How the documents change. *)

\* An account that is written again keeps its owner and its names, and what was paid.
Kept(a, b) ==
    /\ b.id = a.id /\ b.name = a.name /\ b.provider = a.provider /\ b.of = a.of
    /\ a.paid => b.paid

Keeps(A, B) == \A a \in A : \E b \in B : Kept(a, b)

\* What tokens and requests rest on stays, as long as accounts are kept.
LEMMA KeptSuffices ==
  ASSUME NEW A, NEW B, Keeps(A, B)
  PROVE  /\ \A x : Given(x, A) => Given(x, B)
         /\ \A r : Backed(r, A) => Backed(r, B)
  <1>1. ASSUME NEW x, Given(x, A) PROVE Given(x, B)
    <2>1. PICK a \in A : /\ a.id = x.account /\ a.name = x.name /\ a.of = x.by
                         /\ x.by \in TelegramIds => a.provider = "telegram"
      BY <1>1 DEF Given
    <2>2. PICK b \in B : Kept(a, b)
      BY DEF Keeps
    <2>3. QED
      BY <2>1, <2>2 DEF Given, Kept
  <1>2. ASSUME NEW r, Backed(r, A) PROVE Backed(r, B)
    <2>1. ASSUME NEW a \in A, a.name = r.name, r.at = "bot" => a.paid
          PROVE  \E b \in B : b.name = r.name /\ (r.at = "bot" => b.paid)
      <3>1. PICK b \in B : Kept(a, b)
        BY DEF Keeps
      <3>2. QED
        BY <2>1, <3>1 DEF Kept
    <2>2. ASSUME NEW a \in A, a.name = r.name, r.shown = {a.id},
                 r.at = "username" \/ (r.at = "telegramId" /\ a.provider = "telegram")
          PROVE  \E b \in B : /\ b.name = r.name /\ r.shown = {b.id}
                              /\ \/ r.at = "username"
                                 \/ r.at = "telegramId" /\ b.provider = "telegram"
      <3>1. PICK b \in B : Kept(a, b)
        BY DEF Keeps
      <3>2. QED
        BY <2>2, <3>1 DEF Kept
    <2>3. QED
      BY <1>2, <2>1, <2>2 DEF Backed
  <1>3. QED
    BY <1>1, <1>2

\* Accounts are kept and stay sound, and every new token and request is backed by them.
LEMMA StepKeeps ==
  ASSUME IInv, Sound(accounts'), Keeps(accounts, accounts'),
         \A x \in tokens' : x \in tokens \/ Given(x, accounts'),
         \A r \in requests' : r \in requests \/ Backed(r, accounts')
  PROVE  IInv'
  BY KeptSuffices DEF IInv

LEMMA SameAccounts ==
  ASSUME Sound(accounts), UNCHANGED accounts
  PROVE  Sound(accounts') /\ Keeps(accounts, accounts')
  BY DEF Keeps, Kept

\* A save succeeds only under a name that is not taken: the unique index.
LEMMA AddsKeeps ==
  ASSUME Sound(accounts), NEW name, NEW provider, NEW of, NEW roles,
         Adds(name, provider, of, roles), provider = "telegram" => of = name
  PROVE  /\ Sound(accounts') /\ Keeps(accounts, accounts')
         /\ \E a \in accounts' : /\ accounts' \ accounts = {a}
                                 /\ a.name = name /\ a.provider = provider /\ a.of = of
  <1> DEFINE a == Account(Cardinality(accounts) + 1, name, provider, of, roles)
  <1>1. /\ IsAccount(a) /\ a.name = name /\ a.provider = provider /\ a.of = of
        /\ ~a.bot
    BY DEF Account, IsAccount
  <1>2. accounts' = accounts \cup {a} /\ \A b \in accounts : b.name # name
    BY DEF Adds, Taken
  <1> HIDE DEF a
  <1>3. a \notin accounts
    BY <1>1, <1>2
  <1>4. Sound(accounts')
    BY <1>1, <1>2 DEF Sound
  <1>5. Keeps(accounts, accounts')
    BY <1>2 DEF Keeps, Kept
  <1>6. QED
    BY <1>1, <1>2, <1>3, <1>4, <1>5

\* One account by name, and one by Telegram id.
LEMMA FoundOnce ==
  ASSUME Sound(accounts), NEW a \in accounts
  PROVE  /\ Ids(Lookup("username", a.name)) = {a.id}
         /\ a.provider = "telegram" => /\ TelegramAccounts(a.name) = {a}
                                       /\ Ids(Lookup("telegramId", a.name)) = {a.id}
  <1>1. {b \in accounts : b.name = a.name} = {a}
    BY DEF Sound
  <1>2. Lookup("username", a.name) = {a}
    BY <1>1 DEF Lookup
  <1>3. ASSUME a.provider = "telegram" PROVE TelegramAccounts(a.name) = {a}
    BY <1>3 DEF Sound, TelegramAccounts
  <1>4. ASSUME a.provider = "telegram" PROVE Lookup("telegramId", a.name) = {a}
    BY <1>3, <1>4 DEF Lookup
  <1>5. QED
    BY <1>2, <1>3, <1>4 DEF Ids

LEMMA RequestFields ==
  ASSUME NEW kind, NEW by, NEW name, NEW at, NEW where
  PROVE  LET r == Request(kind, by, name, at, where)
         IN  /\ IsRequest(r) /\ r.kind = kind /\ r.by = by /\ r.name = name /\ r.at = at
             /\ r.where = where /\ r.shown = {}
  BY DEF Request, IsRequest

LEMMA TokenFields ==
  ASSUME NEW by, NEW name, NEW a
  PROVE  LET x == Token(by, name, a)
         IN  x.by = by /\ x.name = name /\ x.account = a.id
  BY DEF Token

\* A request goes on to its next step.
LEMMA GoesOn ==
  ASSUME NEW r, NEW at, NEW A, NEW B, Backed(r, A), Keeps(A, B), r.kind # "bid",
         r.kind = "create" => \E a \in B : a.name = r.name /\ (at = "bot" => a.paid)
  PROVE  Backed([r EXCEPT !.at = at], B)
  <1> DEFINE s == [r EXCEPT !.at = at]
  <1>1. /\ IsRequest(s) /\ s.kind = r.kind /\ s.by = r.by /\ s.name = r.name /\ s.at = at
    BY DEF Backed, IsRequest
  <1> HIDE DEF s
  <1>2. Backed(s, B)
    BY <1>1 DEF Backed
  <1>3. QED
    BY <1>2 DEF s

-----------------------------------------------------------------------------
(* The actions preserve the invariant. *)

\* A request begins, or a token is given, and no account changes.
LEMMA AskingKeeps ==
  ASSUME IInv, Asking
  PROVE  IInv'
  <1>1. Sound(accounts) /\ (UNCHANGED accounts => Sound(accounts') /\ Keeps(accounts, accounts'))
    BY SameAccounts DEF IInv
  <1>2. PICK where \in Apis :
          \/ \E p \in People, name \in Registrable : Registers(p, name, where)
          \/ \E p \in People \cup {Operator}, name \in Registrable : LogsIn(p, name, where)
          \/ \E t \in TelegramIds : OpensWebView(t, where)
          \/ \E token \in tokens, name \in BotNames : CreatesUser(token, name, where)
          \/ \E token \in tokens, recipient \in Recipient : Offers(token, recipient, where)
    BY DEF Asking
  <1>3. ASSUME NEW p \in People, NEW name \in Registrable, Registers(p, name, where)
        PROVE  IInv'
    <2> DEFINE r == Request("register", p, name, "save", where)
    <2>1. Backed(r, accounts')
      BY RequestFields DEF Backed
    <2>2. requests' = requests \cup {r} /\ UNCHANGED <<accounts, tokens>>
      BY <1>3 DEF Registers, Served
    <2> HIDE DEF r
    <2>3. QED
      BY <1>1, <2>1, <2>2, StepKeeps
  <1>4. ASSUME NEW p \in People \cup {Operator}, NEW name \in Registrable, LogsIn(p, name, where)
        PROVE  IInv'
    <2>1. PICK a \in WebAccounts(name) : a.of = p /\ tokens' = tokens \cup {Token(p, name, a)}
      BY <1>4 DEF LogsIn
    <2>2. p \notin TelegramIds
      BY AccountsAssumption
    <2>3. UNCHANGED <<accounts, requests>>
      BY <1>4 DEF LogsIn
    <2>4. Given(Token(p, name, a), accounts')
      BY <2>1, <2>2, <2>3, TokenFields DEF Given, WebAccounts
    <2>5. QED
      BY <1>1, <2>1, <2>3, <2>4, StepKeeps
  <1>5. ASSUME NEW t \in TelegramIds, OpensWebView(t, where)
        PROVE  IInv'
    <2> DEFINE r == RestoresAuth(t, where)
               s == LogsInTelegram(t, where)
    <2>1. Backed(r, accounts') /\ Backed(s, accounts')
      BY RequestFields DEF Backed, RestoresAuth, LogsInTelegram
    <2>2. requests' = requests \cup {r, s} /\ UNCHANGED <<accounts, tokens>>
      BY <1>5 DEF OpensWebView, Served
    <2> HIDE DEF r, s
    <2>3. QED
      BY <1>1, <2>1, <2>2, StepKeeps
  <1>6. ASSUME NEW token \in tokens, NEW name \in BotNames, CreatesUser(token, name, where)
        PROVE  IInv'
    <2> DEFINE r == Request("create", token.by, name, "deposit", where)
    <2>1. /\ Adds(name, "legacy", Nobody, {"user"})
          /\ requests' = requests \cup {r} /\ UNCHANGED tokens
      BY <1>6 DEF CreatesUser, Served
    <2>2. /\ Sound(accounts') /\ Keeps(accounts, accounts')
          /\ \E a \in accounts' : a.name = name
      BY <1>1, <2>1, AddsKeeps
    <2>3. Backed(r, accounts')
      BY <2>2, RequestFields DEF Backed
    <2> HIDE DEF r
    <2>4. QED
      BY <2>1, <2>2, <2>3, StepKeeps
  <1>7. ASSUME NEW token \in tokens, NEW recipient \in Recipient, Offers(token, recipient, where)
        PROVE  IInv'
    <2> DEFINE found == Lookup(recipient[1], recipient[2])
               q == Request("bid", token.by, recipient[2], recipient[1], where)
               r == [q EXCEPT !.shown = Ids(found)]
    <2>1. found # {} /\ requests' = requests \cup {r} /\ UNCHANGED <<accounts, tokens>>
      BY <1>7 DEF Offers, Served
    <2>2. /\ IsRequest(r) /\ r.kind = "bid" /\ r.name = recipient[2] /\ r.at = recipient[1]
          /\ r.shown = Ids(found)
      BY DEF Request, IsRequest
    <2>3. PICK a \in found : TRUE
      BY <2>1
    <2>4. CASE recipient[1] = "username"
      <3>1. a \in accounts /\ a.name = recipient[2]
        BY <2>3, <2>4 DEF Lookup
      <3>2. Ids(found) = {a.id}
        BY <1>1, <2>4, <3>1, FoundOnce
      <3>3. Backed(r, accounts')
        <4> HIDE DEF r
        <4>1. QED
          BY <2>1, <2>2, <2>4, <3>1, <3>2 DEF Backed
      <3> HIDE DEF r
      <3>4. QED
        BY <1>1, <2>1, <3>3, StepKeeps
    <2>5. CASE recipient[1] = "telegramId"
      <3>1. a \in accounts /\ a.of = recipient[2] /\ a.provider = "telegram"
        BY <2>3, <2>5 DEF Lookup, TelegramAccounts
      <3>2. a.name = recipient[2]
        BY <1>1, <3>1 DEF Sound
      <3>3. Ids(found) = {a.id}
        BY <1>1, <2>5, <3>1, <3>2, FoundOnce
      <3>4. Backed(r, accounts')
        <4> HIDE DEF r
        <4>1. QED
          BY <2>1, <2>2, <2>5, <3>1, <3>2, <3>3 DEF Backed
      <3> HIDE DEF r
      <3>5. QED
        BY <1>1, <2>1, <3>4, StepKeeps
    <2>6. recipient[1] \in {"username", "telegramId"}
      BY DEF Recipient
    <2>7. QED
      BY <2>4, <2>5, <2>6
  <1>8. QED
    BY <1>2, <1>3, <1>4, <1>5, <1>6, <1>7

\* An account that is paid, or gets a bot, is the same otherwise.
LEMMA Rewritten ==
  ASSUME NEW a, IsAccount(a), NEW v
  PROVE  /\ LET b == [a EXCEPT !.paid = v]
            IN  /\ IsAccount(b) /\ b.id = a.id /\ b.name = a.name /\ b.provider = a.provider
                /\ b.of = a.of /\ b.paid = v
         /\ LET b == [a EXCEPT !.bot = v]
            IN  /\ IsAccount(b) /\ b.id = a.id /\ b.name = a.name /\ b.provider = a.provider
                /\ b.of = a.of /\ b.paid = a.paid
  BY DEF IsAccount

LEMMA ServingKeeps ==
  ASSUME IInv, Serving
  PROVE  IInv'
  <1>1. Sound(accounts) /\ (UNCHANGED accounts => Sound(accounts') /\ Keeps(accounts, accounts'))
    BY SameAccounts DEF IInv
  <1>2. PICK r \in requests :
          SavesRegistration(r) \/ FindsTelegramUser(r) \/ SavesTelegramUser(r)
          \/ PaysUser(r) \/ CreatesBot(r) \/ Gives(r)
    BY DEF Serving
  <1>3. Backed(r, accounts)
    BY DEF IInv
  <1>4. CASE SavesRegistration(r)
    <2>1. /\ requests' = requests \ {r}
          /\ \/ /\ Adds(r.name, "web", r.by, {"user"})
                /\ \E a \in accounts' \ accounts : tokens' = tokens \cup {Token(r.by, r.name, a)}
             \/ UNCHANGED <<accounts, tokens>>
      BY <1>4 DEF SavesRegistration
    <2>2. CASE UNCHANGED <<accounts, tokens>>
      BY <1>1, <2>1, <2>2, StepKeeps
    <2>3. CASE /\ Adds(r.name, "web", r.by, {"user"})
               /\ \E a \in accounts' \ accounts : tokens' = tokens \cup {Token(r.by, r.name, a)}
      <3>1. r.by \notin TelegramIds
        BY <1>4, <1>3, AccountsAssumption DEF SavesRegistration, Backed
      <3>2. /\ Sound(accounts') /\ Keeps(accounts, accounts')
            /\ \E a \in accounts' : /\ accounts' \ accounts = {a} /\ a.name = r.name
                                    /\ a.provider = "web" /\ a.of = r.by
        BY <1>1, <2>3, <3>1, AddsKeeps
      <3>3. PICK a \in accounts' : /\ a.name = r.name /\ a.provider = "web" /\ a.of = r.by
                                   /\ tokens' = tokens \cup {Token(r.by, r.name, a)}
        BY <2>3, <3>2
      <3>4. Given(Token(r.by, r.name, a), accounts')
        BY <3>1, <3>3, TokenFields DEF Given
      <3>5. QED
        BY <2>1, <3>2, <3>3, <3>4, StepKeeps
    <2>4. QED
      BY <2>1, <2>2, <2>3
  <1>5. CASE SavesTelegramUser(r)
    <2>1. /\ requests' = requests \ {r}
          /\ \/ /\ Adds(r.name, "telegram", r.by, {"user"})
                /\ \E a \in accounts' \ accounts : tokens' = tokens \cup {Token(r.by, r.name, a)}
             \/ UNCHANGED <<accounts, tokens>>
      BY <1>5 DEF SavesTelegramUser, ActsAs
    <2>2. CASE UNCHANGED <<accounts, tokens>>
      BY <1>1, <2>1, <2>2, StepKeeps
    <2>3. CASE /\ Adds(r.name, "telegram", r.by, {"user"})
               /\ \E a \in accounts' \ accounts : tokens' = tokens \cup {Token(r.by, r.name, a)}
      <3>1. r.name = r.by
        BY <1>5, <1>3 DEF SavesTelegramUser, Backed
      <3>2. /\ Sound(accounts') /\ Keeps(accounts, accounts')
            /\ \E a \in accounts' : /\ accounts' \ accounts = {a} /\ a.name = r.name
                                    /\ a.provider = "telegram" /\ a.of = r.by
        BY <1>1, <2>3, <3>1, AddsKeeps
      <3>3. PICK a \in accounts' : /\ a.name = r.name /\ a.provider = "telegram" /\ a.of = r.by
                                   /\ tokens' = tokens \cup {Token(r.by, r.name, a)}
        BY <2>3, <3>2
      <3>4. Given(Token(r.by, r.name, a), accounts')
        BY <3>1, <3>3, TokenFields DEF Given
      <3>5. QED
        BY <2>1, <3>2, <3>3, <3>4, StepKeeps
    <2>4. QED
      BY <2>1, <2>2, <2>3
  <1>6. CASE FindsTelegramUser(r)
    <2>1. /\ r.kind \in {"telegram", "header"} /\ r.by \in TelegramIds /\ r.name = r.by
          /\ UNCHANGED accounts
      BY <1>3, <1>6 DEF FindsTelegramUser, Backed
    <2>2. CASE TelegramAccounts(r.by) = {}
      <3> DEFINE s == [r EXCEPT !.at = "save"]
      <3>1. requests' = (requests \ {r}) \cup {s} /\ UNCHANGED tokens
        BY <1>6, <2>2 DEF FindsTelegramUser
      <3>2. Backed(s, accounts')
        BY <1>1, <1>3, <2>1, GoesOn
      <3> HIDE DEF s
      <3>3. QED
        BY <1>1, <2>1, <3>1, <3>2, StepKeeps
    <2>3. CASE TelegramAccounts(r.by) # {}
      <3>1. PICK a \in TelegramAccounts(r.by) : tokens' = tokens \cup {Token(r.by, r.name, a)}
        BY <1>6, <2>3 DEF FindsTelegramUser, ActsAs
      <3>2. requests' = requests \ {r}
        BY <1>6, <2>3 DEF FindsTelegramUser
      <3>3. a \in accounts /\ a.of = r.by /\ a.name = r.by /\ a.provider = "telegram"
        BY <1>1 DEF TelegramAccounts, Sound
      <3>4. Given(Token(r.by, r.name, a), accounts')
        BY <2>1, <3>3, TokenFields DEF Given
      <3>5. QED
        BY <1>1, <2>1, <3>1, <3>2, <3>4, StepKeeps
    <2>4. QED
      BY <2>2, <2>3
  <1>7. CASE PaysUser(r)
    <2> DEFINE F(a) == IF a.name = r.name THEN [a EXCEPT !.paid = TRUE] ELSE a
               s == [r EXCEPT !.at = "bot"]
    <2>1. /\ r.kind = "create" /\ requests' = (requests \ {r}) \cup {s} /\ UNCHANGED tokens
          /\ accounts' = {F(a) : a \in accounts}
      BY <1>7 DEF PaysUser
    <2>2. ASSUME NEW a \in accounts
          PROVE  /\ IsAccount(F(a)) /\ Kept(a, F(a)) /\ (F(a).bot => F(a).paid)
                 /\ a.name = r.name => F(a).paid
      <3>1. IsAccount(a) /\ (a.bot => a.paid)
        BY <1>1 DEF Sound
      <3> DEFINE b == [a EXCEPT !.paid = TRUE]
      <3>2. /\ IsAccount(b) /\ b.id = a.id /\ b.name = a.name /\ b.provider = a.provider
            /\ b.of = a.of /\ b.paid
        <4>1. /\ IsAccount(b) /\ b.id = a.id /\ b.name = a.name /\ b.provider = a.provider
              /\ b.of = a.of /\ b.paid = TRUE
          BY <3>1, Rewritten, Zenon
        <4>2. QED
          BY <4>1
      <3>3. F(a) = IF a.name = r.name THEN b ELSE a
        OBVIOUS
      <3> HIDE DEF b, F
      <3>4. QED
        BY <3>1, <3>2, <3>3 DEF Kept
    <2> HIDE DEF F
    <2>3. Sound(accounts') /\ Keeps(accounts, accounts')
      BY <1>1, <2>1, <2>2 DEF Sound, Keeps, Kept
    <2>4. \E a \in accounts' : a.name = r.name /\ a.paid
      BY <1>3, <2>1, <2>2 DEF Backed, Kept
    <2>5. Backed(s, accounts')
      BY <1>3, <2>1, <2>3, <2>4, GoesOn
    <2> HIDE DEF s
    <2>6. QED
      BY <2>1, <2>3, <2>5, StepKeeps
  <1>8. CASE CreatesBot(r)
    <2> DEFINE F(a) == IF a.name = r.name THEN [a EXCEPT !.bot = TRUE] ELSE a
    <2>1. /\ r.kind = "create" /\ r.at = "bot" /\ requests' = requests \ {r} /\ UNCHANGED tokens
          /\ accounts' = {F(a) : a \in accounts}
      BY <1>8 DEF CreatesBot
    <2>2. \A a \in accounts : a.name = r.name => a.paid
      BY <1>1, <1>3, <2>1 DEF Backed, Sound
    <2>3. ASSUME NEW a \in accounts
          PROVE  IsAccount(F(a)) /\ Kept(a, F(a)) /\ (F(a).bot => F(a).paid)
      <3>1. IsAccount(a) /\ (a.bot => a.paid)
        BY <1>1 DEF Sound
      <3> DEFINE b == [a EXCEPT !.bot = TRUE]
      <3>2. /\ IsAccount(b) /\ b.id = a.id /\ b.name = a.name /\ b.provider = a.provider
            /\ b.of = a.of /\ b.paid = a.paid
        BY <3>1, Rewritten, Zenon
      <3>3. F(a) = IF a.name = r.name THEN b ELSE a
        OBVIOUS
      <3> HIDE DEF b, F
      <3>4. QED
        BY <2>2, <3>1, <3>2, <3>3 DEF Kept
    <2> HIDE DEF F
    <2>4. Sound(accounts') /\ Keeps(accounts, accounts')
      BY <1>1, <2>1, <2>3 DEF Sound, Keeps, Kept
    <2>5. QED
      BY <2>1, <2>4, StepKeeps
  <1>9. CASE Gives(r)
    BY <1>1, <1>9, StepKeeps DEF Gives
  <1>10. QED
    BY <1>2, <1>4, <1>5, <1>6, <1>7, <1>8, <1>9

\* The processes: the account of the administrator is found, or made, or taken over.
LEMMA ProcessesKeep ==
  ASSUME IInv, NEW p \in Apis, Launches(p) \/ ChecksAdmin(p) \/ CreatesAdmin(p) \/ Exits(p)
  PROVE  IInv'
  <1>1. Sound(accounts) /\ (UNCHANGED accounts => Sound(accounts') /\ Keeps(accounts, accounts'))
    BY SameAccounts DEF IInv
  <1>2. CASE Launches(p) \/ Exits(p)
    <2>1. UNCHANGED <<accounts, tokens>> /\ requests' \in SUBSET requests
      BY <1>2 DEF Launches, Exits
    <2>2. QED
      BY <1>1, <2>1, StepKeeps
  <1>3. CASE ChecksAdmin(p)
    <2>1. UNCHANGED <<requests, tokens>>
      BY <1>3 DEF ChecksAdmin
    <2>2. CASE UNCHANGED accounts
      BY <1>1, <2>1, <2>2, StepKeeps
    <2>3. CASE WebAccounts(AdminName) # {}
      <3>1. PICK found \in WebAccounts(AdminName) :
              accounts' = (accounts \ {found}) \cup {[found EXCEPT !.roles = @ \cup {"admin"}]}
        BY <1>3, <2>3 DEF ChecksAdmin
      <3> DEFINE b == [found EXCEPT !.roles = @ \cup {"admin"}]
      <3>2. found \in accounts
        BY DEF WebAccounts
      <3>3. IsAccount(b) /\ Kept(found, b) /\ (b.bot => b.paid) /\ b.name = found.name
        BY <1>1, <3>2 DEF Sound, IsAccount, Kept
      <3>4. accounts' = (accounts \ {found}) \cup {b}
        BY <3>1
      <3> HIDE DEF b
      <3>5. Keeps(accounts, accounts')
        BY <3>3, <3>4 DEF Keeps, Kept
      <3>6. Sound(accounts')
        BY <1>1, <3>2, <3>3, <3>4 DEF Sound, Kept
      <3>7. QED
        BY <2>1, <3>5, <3>6, StepKeeps
    <2>4. QED
      BY <1>3, <2>2, <2>3 DEF ChecksAdmin
  <1>4. CASE CreatesAdmin(p)
    <2>1. UNCHANGED <<requests, tokens>>
      BY <1>4 DEF CreatesAdmin
    <2>2. CASE UNCHANGED accounts
      BY <1>1, <2>1, <2>2, StepKeeps
    <2>3. CASE Adds(AdminName, "web", Operator, {"admin"})
      <3>1. Sound(accounts') /\ Keeps(accounts, accounts')
        BY <1>1, <2>3, AddsKeeps
      <3>2. QED
        BY <2>1, <3>1, StepKeeps
    <2>4. QED
      BY <1>4, <2>2, <2>3 DEF CreatesAdmin
  <1>5. QED
    BY <1>2, <1>3, <1>4

LEMMA InitInv == Init => IInv
  <1> SUFFICES ASSUME Init PROVE IInv
    OBVIOUS
  <1>1. Sound(accounts)
    <2>1. CASE accounts = {}
      BY <2>1 DEF Sound
    <2>2. CASE \E p \in People : accounts = {Account(1, AdminName, "web", p, {"user"})}
      <3>1. PICK p \in People : accounts = {Account(1, AdminName, "web", p, {"user"})}
        BY <2>2
      <3> DEFINE a == Account(1, AdminName, "web", p, {"user"})
      <3>2. IsAccount(a) /\ a.provider = "web" /\ ~a.bot
        BY DEF Account, IsAccount
      <3>3. accounts = {a}
        BY <3>1
      <3> HIDE DEF a
      <3>4. QED
        BY <3>2, <3>3 DEF Sound
    <2>3. QED
      BY <2>1, <2>2 DEF Init
  <1>2. QED
    BY <1>1 DEF Init, IInv

LEMMA NextInv ==
  ASSUME IInv, [Next]_vars
  PROVE  IInv'
  <1>1. CASE Asking
    BY <1>1, AskingKeeps
  <1>2. CASE Serving
    BY <1>2, ServingKeeps
  <1>3. CASE \E a \in Apis : Launches(a) \/ ChecksAdmin(a) \/ CreatesAdmin(a) \/ Exits(a)
    BY <1>3, ProcessesKeep
  <1>4. CASE UNCHANGED vars
    BY <1>4, SameAccounts, StepKeeps DEF vars, IInv
  <1>5. QED
    BY <1>1, <1>2, <1>3, <1>4 DEF Next

-----------------------------------------------------------------------------
(* The theorem. *)

\* However many requests look for an account before one of them saves it: a name and a
\* Telegram id mean one account, that of whoever was let in under it; the recipient whom the
\* page has shown is the one the server finds; and a bot's user was paid before the bot.
THEOREM OneAccount == Spec => []OneAccountEach
  <1>1. IInv => OneAccountEach
    <2> SUFFICES ASSUME IInv PROVE OneAccountEach
      OBVIOUS
    <2>1. Sound(accounts)
      BY DEF IInv
    <2>2. ASSUME NEW x \in tokens
          PROVE  /\ Ids(Lookup("username", x.name)) = {x.account}
                 /\ x.by \in TelegramIds => Ids(Lookup("telegramId", x.by)) = {x.account}
                 /\ \A a \in Lookup("username", x.name) : a.of = x.by
      <3>1. PICK a \in accounts : /\ a.id = x.account /\ a.name = x.name /\ a.of = x.by
                                  /\ x.by \in TelegramIds => a.provider = "telegram"
        BY DEF IInv, Given
      <3>2. Ids(Lookup("username", x.name)) = {x.account}
        BY <2>1, <3>1, FoundOnce
      <3>3. x.by \in TelegramIds => Ids(Lookup("telegramId", x.by)) = {x.account}
        <4>1. a.provider = "telegram" => x.by = a.name
          BY <2>1, <3>1 DEF Sound
        <4>2. QED
          BY <2>1, <3>1, <4>1, FoundOnce
      <3>4. \A b \in Lookup("username", x.name) : b = a
        BY <2>1, <3>1 DEF Sound, Lookup
      <3>5. QED
        BY <3>1, <3>2, <3>3, <3>4
    <2>3. ASSUME NEW r \in requests, r.kind = "bid"
          PROVE  Ids(Lookup(r.at, r.name)) = r.shown
      <3>1. PICK a \in accounts : /\ a.name = r.name /\ r.shown = {a.id}
                                  /\ \/ r.at = "username"
                                     \/ r.at = "telegramId" /\ a.provider = "telegram"
        BY <2>3 DEF IInv, Backed
      <3>2. QED
        BY <2>1, <3>1, FoundOnce
    <2>4. \A a \in accounts : a.bot => a.paid
      BY <2>1 DEF Sound
    <2>5. QED
      BY <2>2, <2>3, <2>4 DEF OneAccountEach
  <1>2. IInv /\ [Next]_vars => IInv'
    BY NextInv
  <1>3. QED
    BY <1>1, <1>2, InitInv, PTL DEF Spec

-----------------------------------------------------------------------------
(* Sessions: the inductive invariant *)

Tokens == {S!NoToken} \cup [user : Users, left : -Grace..Life]

\* A sign-in has the token that it will be given.
Awaited == {f \in [why : {"renew", "visit", "restore", "login"}, at : {"token", "me"},
                   sent : Tokens] : f.why = "login" => f.sent # S!NoToken}

Shown == [open : BOOLEAN, awake : BOOLEAN, user : Users \cup {None},
          mine : Tokens, ws : Tokens, timer : Tokens]

SessionTypes ==
    /\ storage \in Tokens /\ tab \in [Tabs -> Shown] /\ flows \in [Tabs -> SUBSET Awaited]
    /\ losses \in Nat
    /\ crossed \in [Tabs -> BOOLEAN] /\ renewed \in [Tabs -> BOOLEAN]

\* Of two tokens the first ends no later.
NoLater(a, b) == S!NoToken \in {a, b} \/ a.left <= b.left

\* No tab has a token that ends later than that in the storage.
NewestStored ==
    \A t \in Tabs :
        /\ NoLater(tab[t].mine, storage) /\ NoLater(tab[t].timer, storage)
        /\ \A f \in flows[t] : f.at = "me" => NoLater(f.sent, storage)

\* A renewal is due or under way wherever a user is shown.
Scheduled ==
    \A t \in Tabs :
        (tab[t].user # None /\ ~crossed[t] /\ losses = 0)
        => \/ tab[t].timer # S!NoToken
           \/ \E f \in flows[t] : f.why = "renew" /\ f.at = "token"

SessionInv == SessionTypes /\ NewestStored /\ Scheduled /\ ActsAsShown

-----------------------------------------------------------------------------
(* Tokens *)

\* Time takes a token's time and nothing else.
LEMMA OlderIs ==
  ASSUME NEW a \in Tokens
  PROVE  /\ S!Older(a) \in Tokens /\ S!Older(a).user = a.user
         /\ S!Older(a) = S!NoToken <=> a = S!NoToken
<1>1. CASE a = S!NoToken
  BY <1>1 DEF S!Older, S!NoToken, Tokens
<1>2. CASE a \in [user : Users, left : -Grace..Life]
  <2>1. a.user # None /\ a.user \in Users /\ a.left \in -Grace..Life
    BY <1>2, SessionAssumption DEF S!SessionAssumption
  <2>2. a # S!NoToken
    BY <2>1 DEF S!NoToken
  <2>3. S!Older(a) \in [user : Users, left : -Grace..Life] /\ S!Older(a).user = a.user
    BY <1>2, <2>1, SessionAssumption DEF S!Older, S!SessionAssumption
  <2>4. S!Older(a) # S!NoToken
    BY <2>1, <2>3 DEF S!NoToken
  <2> QED
    BY <2>2, <2>3, <2>4 DEF Tokens
<1> QED
  BY <1>1, <1>2 DEF Tokens

\* Two tokens grow old together.
LEMMA OlderKeeps ==
  ASSUME NEW a \in Tokens, NEW b \in Tokens, NoLater(a, b)
  PROVE  NoLater(S!Older(a), S!Older(b))
<1>1. CASE S!NoToken \in {a, b}
  BY <1>1, OlderIs DEF NoLater
<1>2. CASE a # S!NoToken /\ b # S!NoToken
  <2>1. a \in [user : Users, left : -Grace..Life] /\ b \in [user : Users, left : -Grace..Life]
    BY <1>2 DEF Tokens
  <2>2. a.left <= b.left
    BY <1>2 DEF NoLater
  <2>3. S!Older(a).left <= S!Older(b).left
    BY <2>1, <2>2, SessionAssumption DEF S!Older, S!SessionAssumption
  <2> QED
    BY <2>3 DEF NoLater
<1> QED
  BY <1>1, <1>2

\* A token that is given out is a user's, and ends last.
LEMMA IssuedIs ==
  ASSUME NEW u \in Users
  PROVE  /\ S!Issued(u) \in Tokens /\ S!Issued(u) # S!NoToken /\ S!Issued(u).user = u
         /\ \A a \in Tokens : NoLater(a, S!Issued(u))
<1>1. S!Issued(u) \in Tokens /\ S!Issued(u) # S!NoToken /\ S!Issued(u).user = u
  BY SessionAssumption DEF S!Issued, S!NoToken, S!SessionAssumption, Tokens
<1>2. ASSUME NEW a \in Tokens
      PROVE  NoLater(a, S!Issued(u))
  BY SessionAssumption DEF S!Issued, S!SessionAssumption, Tokens, NoLater
<1> QED
  BY <1>1, <1>2

\* A token is nobody's if it is none.
LEMMA TokenUser ==
  ASSUME NEW a \in Tokens
  PROVE  /\ a = S!NoToken => a.user = None
         /\ a # S!NoToken => a.user \in Users /\ a.user # None
         /\ NoLater(a, a) /\ NoLater(a, S!NoToken) /\ NoLater(S!NoToken, a)
<1>1. a # S!NoToken => a.left \in -Grace..Life
  BY DEF Tokens
<1>2. a.left <= a.left \/ a = S!NoToken
  BY <1>1, SessionAssumption DEF S!SessionAssumption
<1> QED
  BY <1>2, SessionAssumption DEF S!SessionAssumption, S!NoToken, Tokens, NoLater

LEMMA NoTokenIs == S!NoToken \in Tokens
  BY DEF Tokens

-----------------------------------------------------------------------------
(* The steps of a session *)

LEMMA WaitsIs ==
  ASSUME NEW t, NEW f, S!Waits(t, f)
  PROVE  flows' = [flows EXCEPT ![t] = @ \cup {f}]
BY DEF S!Waits

\* A step that leaves the storage and who is shown as they were, gives no tab a token but that
\* of the storage, and takes a timer away only for a renewal.
LEMMA Quietly ==
  ASSUME SessionInv, NEW t \in Tabs, NEW s \in Shown, NEW F \in SUBSET Awaited,
         tab' = [tab EXCEPT ![t] = s], flows' = [flows EXCEPT ![t] = F],
         s.user \in {None, tab[t].user}, s.ws = tab[t].ws \/ s.user = None,
         s.mine \in {S!NoToken, tab[t].mine, storage},
         s.timer \in {S!NoToken, tab[t].timer, storage},
         \A f \in F \ flows[t] : f.at = "me" => f.sent \in {S!NoToken, storage},
         crossed' \in [Tabs -> BOOLEAN], renewed' \in [Tabs -> BOOLEAN],
         \A o \in Tabs : o # t => crossed'[o] = crossed[o] /\ renewed'[o] = renewed[o],
         s.user # None => (~crossed'[t] => ~crossed[t]) /\ renewed'[t] = renewed[t],
         losses' \in Nat, losses' = 0 => losses = 0,
         storage' = storage,
         (s.user # None /\ ~crossed'[t] /\ losses' = 0)
            => \/ s.timer # S!NoToken
               \/ s.timer = tab[t].timer
                  /\ \A f \in flows[t] : f.why = "renew" /\ f.at = "token" => f \in F
               \/ \E f \in F : f.why = "renew" /\ f.at = "token"
  PROVE  SessionInv'
<1> USE DEF SessionInv
<1>1. SessionTypes'
  BY DEF SessionTypes
<1>2. tab'[t] = s /\ flows'[t] = F
      /\ \A o \in Tabs : o # t => tab'[o] = tab[o] /\ flows'[o] = flows[o]
  BY DEF SessionTypes
<1>3. storage \in Tokens /\ s.mine \in Tokens /\ s.timer \in Tokens
  BY DEF SessionTypes, Shown
<1>4. NewestStored'
  <2>1. NoLater(s.mine, storage) /\ NoLater(s.timer, storage)
    BY <1>3, TokenUser DEF NewestStored
  <2>2. ASSUME NEW f \in F, f.at = "me"
        PROVE  NoLater(f.sent, storage)
    BY <1>3, <2>2, TokenUser DEF NewestStored
  <2> QED
    BY <1>2, <2>1, <2>2 DEF NewestStored
<1>5. Scheduled'
  <2>1. (s.user # None /\ ~crossed'[t] /\ losses' = 0)
        => s.timer # S!NoToken \/ \E f \in F : f.why = "renew" /\ f.at = "token"
    BY DEF Scheduled
  <2> QED
    BY <1>2, <2>1 DEF Scheduled
<1>6. ActsAsShown'
  BY <1>2 DEF ActsAsShown, S!ActsAsShown
<1> QED
  BY <1>1, <1>4, <1>5, <1>6

\* What a tab t has after the storage changed, so that every other tab keeps what it was.
LEMMA Anew ==
  ASSUME SessionInv, NEW t \in Tabs, NEW s \in Shown, NEW F \in SUBSET Awaited,
         NEW token \in Tokens, token = S!NoToken \/ \A a \in Tokens : NoLater(a, token),
         storage' = token,
         tab' = [tab EXCEPT ![t] = s], flows' = [flows EXCEPT ![t] = F],
         crossed' \in [Tabs -> BOOLEAN], renewed' \in [Tabs -> BOOLEAN],
         \A o \in Tabs : o # t => 
            /\ crossed'[o] = (crossed[o] \/ tab[o].user \notin {None, token.user})
            /\ renewed'[o] = (renewed[o] \/ tab[o].user # None),
         losses' \in Nat, losses' = 0 => losses = 0,
         (s.user # None /\ ~crossed'[t]) =>
            /\ token.user = s.user /\ s.ws = token
            /\ \/ losses' # 0 \/ s.timer # S!NoToken
               \/ \E f \in F : f.why = "renew" /\ f.at = "token"
  PROVE  SessionInv'
<1> USE DEF SessionInv
<1>1. SessionTypes'
  BY DEF SessionTypes
<1>2. tab'[t] = s /\ flows'[t] = F
      /\ \A o \in Tabs : o # t => tab'[o] = tab[o] /\ flows'[o] = flows[o]
  BY DEF SessionTypes
<1>3. NewestStored'
  <2>1. \A a \in Tokens : NoLater(a, token)
    BY TokenUser
  <2>2. ASSUME NEW o \in Tabs
        PROVE  /\ tab'[o].mine \in Tokens /\ tab'[o].timer \in Tokens
               /\ \A f \in flows'[o] : f.sent \in Tokens
    BY <1>1 DEF SessionTypes, Shown, Awaited
  <2> QED
    BY <2>1, <2>2 DEF NewestStored
<1>4. Scheduled'
  BY <1>2 DEF Scheduled
<1>5. ActsAsShown'
  BY <1>2 DEF ActsAsShown, S!ActsAsShown
<1> QED
  BY <1>1, <1>3, <1>4, <1>5

-----------------------------------------------------------------------------
(* One lemma for each action *)

LEMMA TabIs ==
  ASSUME SessionInv, NEW t \in Tabs
  PROVE  tab[t] \in Shown /\ flows[t] \in SUBSET Awaited /\ storage \in Tokens
BY DEF SessionInv, SessionTypes

LEMMA ClosedIs == S!Closed \in Shown /\ [S!Closed EXCEPT !.open = TRUE, !.awake = TRUE] \in Shown
BY NoTokenIs DEF S!Closed, Shown

LEMMA OpensInv ==
  ASSUME SessionInv, NEW t \in Tabs, S!Opens(t)
  PROVE  SessionInv'
<1> DEFINE s == [S!Closed EXCEPT !.open = TRUE, !.awake = TRUE, !.mine = storage]
           f == [why |-> "restore", sent |-> storage,
                 at |-> IF S!ShouldRefreshSoon(storage) THEN "token" ELSE "me"]
           F == IF storage = S!NoToken THEN flows[t] ELSE flows[t] \cup {f}
<1>1. s \in Shown /\ s.user = None /\ s.mine = storage /\ s.timer = S!NoToken
  BY TabIs, NoTokenIs DEF S!Closed, Shown
<1>2. f \in Awaited /\ f.sent = storage
  BY TabIs DEF Awaited
<1>3. F \in SUBSET Awaited /\ \A g \in F \ flows[t] : g.sent = storage
  BY <1>2, TabIs
<1>4. tab' = [tab EXCEPT ![t] = s] /\ storage' = storage /\ losses' = losses
      /\ crossed' = crossed /\ renewed' = renewed
  BY DEF S!Opens
<1>5. flows' = [flows EXCEPT ![t] = F]
  BY WaitsIs DEF S!Opens, SessionInv, SessionTypes
<1> HIDE DEF s, f, F
<1> QED
  BY <1>1, <1>3, <1>4, <1>5, Quietly DEF SessionInv, SessionTypes

LEMMA ClosesInv ==
  ASSUME SessionInv, NEW t \in Tabs, S!Closes(t)
  PROVE  SessionInv'
<1> DEFINE F == {f \in flows[t] : FALSE}
<1>1. S!Closed.user = None /\ S!Closed.mine = S!NoToken /\ S!Closed.timer = S!NoToken
  BY DEF S!Closed
<1>2. tab' = [tab EXCEPT ![t] = S!Closed] /\ flows' = [flows EXCEPT ![t] = F]
      /\ storage' = storage /\ losses' = losses
      /\ crossed' = [crossed EXCEPT ![t] = FALSE] /\ renewed' = [renewed EXCEPT ![t] = FALSE]
  BY DEF S!Closes, S!Forgotten
<1> QED
  <2>1. crossed' \in [Tabs -> BOOLEAN] /\ renewed' \in [Tabs -> BOOLEAN]
        /\ \A o \in Tabs : o # t => crossed'[o] = crossed[o] /\ renewed'[o] = renewed[o]
    BY <1>2 DEF SessionInv, SessionTypes
  <2>2. losses' \in Nat /\ losses' = losses
    BY <1>2 DEF SessionInv, SessionTypes
  <2>3. F \in SUBSET Awaited /\ F \subseteq flows[t]
    BY TabIs
  <2> HIDE DEF F
  <2> QED
    BY <1>1, <1>2, <2>1, <2>2, <2>3, ClosedIs, Quietly

LEMMA SleepsInv ==
  ASSUME SessionInv, NEW t \in Tabs, S!Sleeps(t)
  PROVE  SessionInv'
<1> DEFINE s == [tab[t] EXCEPT !.awake = FALSE]
<1>1. s \in Shown /\ s.user = tab[t].user /\ s.mine = tab[t].mine /\ s.ws = tab[t].ws
      /\ s.timer = tab[t].timer
  BY TabIs DEF Shown
<1>2. tab' = [tab EXCEPT ![t] = s]
  BY DEF S!Sleeps
<1>3. flows' = [flows EXCEPT ![t] = flows[t]] /\ storage' = storage /\ losses' = losses
      /\ crossed' = crossed /\ renewed' = renewed
  BY DEF S!Sleeps, SessionInv, SessionTypes
<1> HIDE DEF s
<1> QED
  BY <1>1, <1>2, <1>3, TabIs, Quietly DEF SessionInv, SessionTypes

LEMMA LookedInv ==
  ASSUME SessionInv, NEW t \in Tabs, S!Looked(t)
  PROVE  SessionInv'
<1> DEFINE s == [tab[t] EXCEPT !.awake = TRUE]
           f == [why |-> "renew", at |-> "token", sent |-> storage]
<1>1. s \in Shown /\ s.user = tab[t].user /\ s.mine = tab[t].mine /\ s.ws = tab[t].ws
      /\ s.timer = tab[t].timer
  BY TabIs DEF Shown
<1>2. tab' = [tab EXCEPT ![t] = s] /\ storage' = storage /\ losses' = losses
      /\ crossed' = crossed /\ renewed' = renewed
  BY DEF S!Looked
<1>3. f \in Awaited /\ f.sent = storage /\ f.at = "token"
  BY TabIs DEF Awaited
<1>4. PICK F \in {flows[t], flows[t] \cup {f}} : flows' = [flows EXCEPT ![t] = F]
  BY WaitsIs DEF S!Looked, SessionInv, SessionTypes
<1> HIDE DEF s, f
<1> QED
  <2>1. F \in SUBSET Awaited /\ flows[t] \subseteq F
        /\ \A g \in F \ flows[t] : g.at = "me" => g.sent = storage
    BY <1>3, <1>4, TabIs
  <2>2. losses' \in Nat /\ crossed' \in [Tabs -> BOOLEAN] /\ renewed' \in [Tabs -> BOOLEAN]
    BY <1>2 DEF SessionInv, SessionTypes
  <2> QED
    BY <1>1, <1>2, <1>4, <2>1, <2>2, Quietly

LEMMA VisitsInv ==
  ASSUME SessionInv, NEW t \in Tabs, S!Visits(t)
  PROVE  SessionInv'
<1> DEFINE f == [why |-> "visit", sent |-> storage,
                 at |-> IF storage # S!NoToken /\ S!ShouldRefreshSoon(storage)
                        THEN "token" ELSE "me"]
<1>1. tab' = [tab EXCEPT ![t] = tab[t]] /\ storage' = storage /\ losses' = losses
      /\ crossed' = crossed /\ renewed' = renewed
  BY DEF S!Visits, SessionInv, SessionTypes
<1>2. f \in Awaited /\ f.sent = storage
  BY TabIs DEF Awaited
<1>3. flows' = [flows EXCEPT ![t] = flows[t] \cup {f}]
  BY WaitsIs DEF S!Visits
<1> HIDE DEF f
<1> QED
  <2>1. flows[t] \cup {f} \in SUBSET Awaited
        /\ \A g \in (flows[t] \cup {f}) \ flows[t] : g.at = "me" => g.sent = storage
    BY <1>2, TabIs
  <2>2. losses' \in Nat /\ crossed' \in [Tabs -> BOOLEAN] /\ renewed' \in [Tabs -> BOOLEAN]
    BY <1>1 DEF SessionInv, SessionTypes
  <2>3. tab[t] \in Shown /\ tab[t].user \in {None, tab[t].user}
    BY TabIs
  <2> QED
    BY <1>1, <1>3, <2>1, <2>2, <2>3, Quietly

LEMMA SignsInInv ==
  ASSUME SessionInv, NEW t \in Tabs, NEW u \in Users, S!SignsIn(t, u)
  PROVE  SessionInv'
<1> DEFINE f == [why |-> "login", at |-> "token", sent |-> S!Issued(u)]
<1>1. tab' = [tab EXCEPT ![t] = tab[t]] /\ storage' = storage /\ losses' = losses
      /\ crossed' = crossed /\ renewed' = renewed
  BY DEF S!SignsIn, SessionInv, SessionTypes
<1>2. f \in Awaited /\ f.at = "token"
  BY IssuedIs DEF Awaited
<1>3. flows' = [flows EXCEPT ![t] = flows[t] \cup {f}]
  BY WaitsIs DEF S!SignsIn
<1> HIDE DEF f
<1> QED
  <2>1. flows[t] \cup {f} \in SUBSET Awaited
        /\ \A g \in (flows[t] \cup {f}) \ flows[t] : g.at = "me" => g.sent = storage
    BY <1>2, TabIs
  <2>2. losses' \in Nat /\ crossed' \in [Tabs -> BOOLEAN] /\ renewed' \in [Tabs -> BOOLEAN]
    BY <1>1 DEF SessionInv, SessionTypes
  <2>3. tab[t] \in Shown /\ tab[t].user \in {None, tab[t].user}
    BY TabIs
  <2> QED
    BY <1>1, <1>3, <2>1, <2>2, <2>3, Quietly

LEMMA FiresInv ==
  ASSUME SessionInv, NEW t \in Tabs, S!Fires(t)
  PROVE  SessionInv'
<1>1. storage' = storage /\ losses' = losses /\ crossed' = crossed /\ renewed' = renewed
  BY DEF S!Fires
<1>2. CASE storage = tab[t].timer
  <2> DEFINE s == [tab[t] EXCEPT !.timer = S!NoToken]
             f == [why |-> "renew", at |-> "token", sent |-> storage]
  <2>1. s \in Shown /\ s.user = tab[t].user /\ s.mine = tab[t].mine /\ s.ws = tab[t].ws
        /\ s.timer = S!NoToken
    BY TabIs, NoTokenIs DEF Shown
  <2>2. f \in Awaited /\ f.at = "token" /\ f.why = "renew"
    BY TabIs DEF Awaited
  <2>3. tab' = [tab EXCEPT ![t] = s]
    BY <1>2 DEF S!Fires
  <2>4. flows' = [flows EXCEPT ![t] = flows[t] \cup {f}]
    BY <1>2, WaitsIs DEF S!Fires
  <2> HIDE DEF s, f
  <2> QED
    <3>1. PICK F \in SUBSET Awaited : F = flows[t] \cup {f}
      BY <2>2, TabIs
    <3>2. flows' = [flows EXCEPT ![t] = F] /\ f \in F /\ \A g \in F \ flows[t] : g.at # "me"
      BY <2>2, <2>4, <3>1
    <3>3. losses' \in Nat /\ crossed' \in [Tabs -> BOOLEAN] /\ renewed' \in [Tabs -> BOOLEAN]
      BY <1>1 DEF SessionInv, SessionTypes
    <3> QED
      BY <1>1, <2>1, <2>2, <2>3, <3>2, <3>3, Quietly
<1>3. CASE storage # tab[t].timer
  <2> DEFINE s == [tab[t] EXCEPT !.timer = storage]
  <2>1. s \in Shown /\ s.user = tab[t].user /\ s.mine = tab[t].mine /\ s.ws = tab[t].ws
        /\ s.timer = storage
    BY TabIs DEF Shown
  <2>2. tab' = [tab EXCEPT ![t] = s] /\ flows' = [flows EXCEPT ![t] = flows[t]]
    BY <1>3 DEF S!Fires, S!Rescheduled, SessionInv, SessionTypes
  <2>3. tab[t].user # None /\ ~crossed[t] => storage # S!NoToken
    BY TabIs, TokenUser DEF SessionInv, ActsAsShown, S!ActsAsShown
  <2> HIDE DEF s
  <2> QED
    BY <1>1, <2>1, <2>2, <2>3, TabIs, Quietly DEF SessionInv, SessionTypes
<1> QED
  BY <1>2, <1>3

LEMMA ClearedInv ==
  ASSUME SessionInv, NEW t \in Tabs, NEW F \in SUBSET flows[t], S!Cleared(t),
         flows' = [flows EXCEPT ![t] = F], losses' \in Nat, losses' = 0 => losses = 0
  PROVE  SessionInv'
<1> DEFINE s == [tab[t] EXCEPT !.user = None, !.mine = S!NoToken, !.ws = S!NoToken,
                               !.timer = S!NoToken]
<1>1. s \in Shown /\ s.user = None
  BY TabIs, NoTokenIs DEF Shown
<1>2. tab' = [tab EXCEPT ![t] = s] /\ storage' = S!NoToken
  BY DEF S!Cleared, SessionInv, SessionTypes, Shown
<1>3. crossed' \in [Tabs -> BOOLEAN] /\ renewed' \in [Tabs -> BOOLEAN]
      /\ \A o \in Tabs : o # t =>
            /\ crossed'[o] = (crossed[o] \/ tab[o].user \notin {None, S!NoToken.user})
            /\ renewed'[o] = (renewed[o] \/ tab[o].user # None)
  BY DEF S!Cleared, S!CrossedBy, S!RenewedBy, SessionInv, SessionTypes
<1>4. F \in SUBSET Awaited
  BY TabIs
<1> HIDE DEF s
<1> QED
  BY <1>1, <1>2, <1>3, <1>4, NoTokenIs, Anew

LEMMA SignsOutInv ==
  ASSUME SessionInv, NEW t \in Tabs, S!SignsOut(t)
  PROVE  SessionInv'
<1>1. flows' = [flows EXCEPT ![t] = flows[t]] /\ losses' = losses /\ losses \in Nat
      /\ S!Cleared(t)
  BY DEF S!SignsOut, SessionInv, SessionTypes
<1> QED
  BY <1>1, ClearedInv

\* The flow that goes on to ask who the user is.
LEMMA GoesOnIs ==
  ASSUME SessionInv, NEW t \in Tabs, NEW f \in flows[t], NEW token \in Tokens,
         f.why # "login" \/ token # S!NoToken, S!GoesOnToMe(t, f, token)
  PROVE  \E F \in SUBSET Awaited :
            /\ flows' = [flows EXCEPT ![t] = F]
            /\ \A g \in F \ flows[t] : g.sent = token
<1> DEFINE g == [f EXCEPT !.at = "me", !.sent = token]
<1>1. f \in Awaited
  BY TabIs
<1>2. g \in Awaited /\ g.sent = token
  BY <1>1 DEF Awaited
<1>3. flows' = [flows EXCEPT ![t] = (flows[t] \ {f}) \cup {g}]
  BY DEF S!GoesOnToMe
<1>4. (flows[t] \ {f}) \cup {g} \in SUBSET Awaited
  BY <1>2, TabIs
<1> HIDE DEF g
<1> QED
  BY <1>2, <1>3, <1>4

LEMMA TokenComesInv ==
  ASSUME SessionInv, NEW t \in Tabs, NEW f \in flows[t], S!TokenComes(t, f)
  PROVE  SessionInv'
<1> DEFINE token == S!Issued(f.sent.user)
           s == [tab[t] EXCEPT !.mine = token, !.ws = token, !.timer = S!TimerFor(t, f, token)]
<1>1. f \in Awaited
  BY TabIs
<1>2. f.sent \in Tokens /\ f.sent # S!NoToken
  BY <1>1 DEF S!TokenComes, S!Renewable, Awaited
<1>3. token \in Tokens /\ token # S!NoToken /\ \A a \in Tokens : NoLater(a, token)
  BY <1>2, TokenUser, IssuedIs
<1>4. /\ storage' = token /\ losses' = losses /\ losses \in Nat
      /\ crossed' = [S!CrossedBy(t, token) EXCEPT
                        ![t] = crossed[t] \/ tab[t].user \notin {None, token.user}]
      /\ renewed' = S!RenewedBy(t)
      /\ tab' = [tab EXCEPT ![t] = s]
  <2>1. crossed' = [S!CrossedBy(t, token) EXCEPT
                        ![t] = @ \/ tab[t].user \notin {None, token.user}]
    BY DEF S!TokenComes, S!Applies
  <2>2. S!CrossedBy(t, token)[t] = crossed[t]
    BY DEF S!CrossedBy, SessionInv, SessionTypes
  <2>3. S!CrossedBy(t, token) = [o \in Tabs |-> S!CrossedBy(t, token)[o]]
    BY DEF S!CrossedBy
  <2>4. tab' = [tab EXCEPT ![t] = s]
    BY DEF S!TokenComes, S!Applies, SessionInv, SessionTypes, Shown
  <2> QED
    BY <2>1, <2>2, <2>3, <2>4 DEF S!TokenComes, S!Applies, SessionInv, SessionTypes
<1>5. /\ crossed' \in [Tabs -> BOOLEAN] /\ renewed' \in [Tabs -> BOOLEAN]
      /\ \A o \in Tabs : o # t =>
            /\ crossed'[o] = (crossed[o] \/ tab[o].user \notin {None, token.user})
            /\ renewed'[o] = (renewed[o] \/ tab[o].user # None)
      /\ ~crossed'[t] => tab[t].user \in {None, token.user}
  <2> HIDE DEF token
  <2> QED
    BY <1>4 DEF S!CrossedBy, S!RenewedBy, SessionInv, SessionTypes
<1>6. /\ s \in Shown /\ s.user = tab[t].user /\ s.ws = token
      /\ s.user # None => s.timer = token
  BY <1>3, TabIs DEF S!TimerFor, Shown
<1>7. PICK F \in SUBSET Awaited : flows' = [flows EXCEPT ![t] = F]
  <2>1. CASE f.why = "renew"
    BY <2>1, TabIs DEF S!TokenComes, S!Ends
  <2>2. CASE f.why # "renew"
    BY <1>3, <2>2, GoesOnIs DEF S!TokenComes
  <2> QED
    BY <2>1, <2>2
<1> HIDE DEF token, s
<1>8. (s.user # None /\ ~crossed'[t]) =>
         token.user = s.user /\ s.ws = token /\ s.timer # S!NoToken
  BY <1>3, <1>5, <1>6
<1>9. losses' \in Nat /\ (losses' = 0 => losses = 0)
  BY <1>4
<1>10. storage' = token /\ tab' = [tab EXCEPT ![t] = s]
  BY <1>4
<1> QED
  BY <1>3, <1>5, <1>6, <1>7, <1>8, <1>9, <1>10, Anew

LEMMA MeIsNullInv ==
  ASSUME SessionInv, NEW t \in Tabs, NEW f \in flows[t], S!MeIsNull(t, f)
  PROVE  SessionInv'
<1>1. flows' = [flows EXCEPT ![t] = flows[t] \ {f}] /\ losses' = losses /\ losses \in Nat
      /\ S!Cleared(t)
  BY DEF S!MeIsNull, S!Ends, SessionInv, SessionTypes
<1> QED
  BY <1>1, ClearedInv

\* A token that is not given is the end of the session, or was a request that got lost.
LEMMA TokenRefusedInv ==
  ASSUME SessionInv, NEW t \in Tabs, NEW f \in flows[t], S!TokenRefused(t, f),
         losses' \in Nat, losses' = 0 => losses = 0,
         \/ losses' # 0 /\ crossed' = crossed
         \/ crossed' = [crossed EXCEPT ![t] = tab[t].user # None]
  PROVE  SessionInv'
<1>1. tab' = [tab EXCEPT ![t] = tab[t]] /\ storage' = storage /\ renewed' = renewed
      /\ renewed \in [Tabs -> BOOLEAN]
  BY DEF S!TokenRefused, SessionInv, SessionTypes
<1>2. crossed' \in [Tabs -> BOOLEAN] /\ \A o \in Tabs : o # t => crossed'[o] = crossed[o]
  BY DEF SessionInv, SessionTypes
<1>3. tab[t].user # None => (~crossed'[t] => ~crossed[t]) /\ (losses' # 0 \/ crossed'[t])
  BY DEF SessionInv, SessionTypes
<1>4. PICK F \in SUBSET Awaited : /\ flows' = [flows EXCEPT ![t] = F]
                                  /\ \A g \in F \ flows[t] : g.sent = storage
  <2>1. CASE f.why \in {"visit", "restore"}
    BY <2>1, TabIs, GoesOnIs DEF S!TokenRefused
  <2>2. CASE f.why \notin {"visit", "restore"}
    <3>1. flows' = [flows EXCEPT ![t] = flows[t] \ {f}]
      BY <2>2 DEF S!TokenRefused, S!Ends
    <3> QED
      BY <3>1, TabIs
  <2> QED
    BY <2>1, <2>2
<1>5. tab[t] \in Shown /\ tab[t].user \in {None, tab[t].user}
  BY TabIs
<1> QED
  BY <1>1, <1>2, <1>3, <1>4, <1>5, Quietly

LEMMA MeFailsInv ==
  ASSUME SessionInv, NEW t \in Tabs, NEW f \in flows[t], S!MeFails(t, f),
         losses' \in Nat, losses' = 0 => losses = 0
  PROVE  SessionInv'
<1>1. PICK F \in SUBSET flows[t] : F = flows[t] \ {f}
  OBVIOUS
<1>2. flows' = [flows EXCEPT ![t] = F] /\ f.at = "me"
  BY <1>1 DEF S!MeFails, S!Ends
<1>3. CASE f.why = "restore"
  BY <1>2, <1>3, ClearedInv DEF S!MeFails
<1>4. CASE f.why # "restore"
  <2>1. tab' = [tab EXCEPT ![t] = tab[t]] /\ storage' = storage /\ renewed' = renewed
        /\ crossed' = crossed /\ renewed \in [Tabs -> BOOLEAN] /\ crossed \in [Tabs -> BOOLEAN]
    BY <1>4 DEF S!MeFails, SessionInv, SessionTypes
  <2>2. F \in SUBSET Awaited /\ tab[t] \in Shown /\ tab[t].user \in {None, tab[t].user}
    BY TabIs
  <2>3. \A g \in flows[t] : g.why = "renew" /\ g.at = "token" => g \in F
    BY <1>1, <1>2
  <2> QED
    BY <1>2, <2>1, <2>2, <2>3, Quietly
<1> QED
  BY <1>3, <1>4

LEMMA RefusedInv ==
  ASSUME SessionInv, NEW t \in Tabs, NEW f \in flows[t], S!Refused(t, f)
  PROVE  SessionInv'
<1>1. losses' = losses /\ losses \in Nat
  BY DEF S!Refused, SessionInv, SessionTypes
<1> QED
  BY <1>1, TokenRefusedInv, MeFailsInv DEF S!Refused

LEMMA LostInv ==
  ASSUME SessionInv, NEW t \in Tabs, NEW f \in flows[t], S!Lost(t, f)
  PROVE  SessionInv'
<1>1. losses' = losses + 1 /\ losses \in Nat
  BY DEF S!Lost, SessionInv, SessionTypes
<1>2. losses' \in Nat /\ losses' # 0
  BY <1>1
<1> QED
  BY <1>2, TokenRefusedInv, MeFailsInv DEF S!Lost

LEMMA MeComesInv ==
  ASSUME SessionInv, NEW t \in Tabs, NEW f \in flows[t], S!MeComes(t, f)
  PROVE  SessionInv'
<1> DEFINE signing == f.why \in {"restore", "login"}
           mine == tab[t].mine
           user == f.sent.user
           ws == IF signing THEN f.sent ELSE tab[t].ws
           timer == IF tab[t].user # user /\ mine # S!NoToken THEN mine
                    ELSE IF signing THEN f.sent ELSE tab[t].timer
           s == [tab[t] EXCEPT !.user = user, !.ws = ws, !.timer = timer]
           F == flows[t] \ {f}
<1>1. f \in Awaited /\ mine \in Tokens /\ tab[t] \in Shown
  BY TabIs DEF Shown
<1>2. f.sent \in Tokens /\ f.sent # S!NoToken /\ user \in Users /\ user # None /\ f.at = "me"
  BY <1>1, TokenUser DEF S!MeComes, S!Accepted, Awaited
<1>3. s \in Shown /\ s.user = user /\ s.ws = ws /\ s.timer = timer /\ s.mine = mine
  BY <1>1, <1>2 DEF Shown
<1>4. tab' = [tab EXCEPT ![t] = s] /\ flows' = [flows EXCEPT ![t] = F]
      /\ storage' = storage /\ losses' = losses
  BY DEF S!MeComes, S!Ends, SessionInv, SessionTypes, Shown
<1>5. /\ crossed' = [crossed EXCEPT ![t] = (crossed[t] /\ ~signing)
                        \/ user # IF signing THEN storage.user ELSE tab[t].user]
      /\ renewed' = [renewed EXCEPT ![t] = IF signing THEN storage # f.sent ELSE renewed[t]]
  BY DEF S!MeComes, SessionInv, SessionTypes
<1>6. /\ crossed' \in [Tabs -> BOOLEAN] /\ renewed' \in [Tabs -> BOOLEAN]
      /\ \A o \in Tabs : o # t => crossed'[o] = crossed[o] /\ renewed'[o] = renewed[o]
      /\ signing => /\ ~crossed'[t] => storage.user = user
                    /\ renewed'[t] \/ storage = f.sent
      /\ ~signing => /\ ~crossed'[t] => ~crossed[t] /\ tab[t].user = user
                     /\ renewed'[t] = renewed[t]
  <2> HIDE DEF signing, user
  <2>1. /\ signing => /\ ~crossed'[t] => storage.user = user
                      /\ renewed'[t] \/ storage = f.sent
        /\ ~signing => /\ ~crossed'[t] => ~crossed[t] /\ tab[t].user = user
                       /\ renewed'[t] = renewed[t]
    BY <1>5 DEF SessionInv, SessionTypes
  <2>2. crossed' \in [Tabs -> BOOLEAN]
    BY <1>5 DEF SessionInv, SessionTypes
  <2>3. (IF signing THEN storage # f.sent ELSE renewed[t]) \in BOOLEAN
    BY DEF SessionInv, SessionTypes
  <2>4. renewed' \in [Tabs -> BOOLEAN]
    BY <1>5, <2>3 DEF SessionInv, SessionTypes
  <2> QED
    BY <1>5, <2>1, <2>2, <2>4 DEF SessionInv, SessionTypes
<1>7. NoLater(s.mine, storage) /\ NoLater(s.timer, storage)
  BY <1>2, <1>3 DEF SessionInv, NewestStored
<1>8. ~crossed'[t] => /\ storage.user = s.user
                      /\ s.ws = storage \/ renewed'[t]
                      /\ \/ s.timer # S!NoToken
                         \/ ~crossed[t] /\ tab[t].user = s.user /\ s.timer = tab[t].timer
  BY <1>2, <1>3, <1>6 DEF SessionInv, ActsAsShown, S!ActsAsShown
<1>9. F \in SUBSET Awaited
  BY TabIs
<1>10. tab'[t] = s /\ flows'[t] = F
       /\ \A o \in Tabs : o # t => tab'[o] = tab[o] /\ flows'[o] = flows[o]
  BY <1>4 DEF SessionInv, SessionTypes
<1>11. \A g \in flows[t] : g.at = "token" => g \in F
  BY <1>2
<1>12. F \subseteq flows[t]
  OBVIOUS
<1> HIDE DEF s, F, signing, user, mine, ws, timer
<1>13. SessionTypes'
  BY <1>3, <1>4, <1>6, <1>9 DEF SessionInv, SessionTypes
<1>14. NewestStored'
  BY <1>4, <1>7, <1>10, <1>12 DEF SessionInv, NewestStored
<1>15. Scheduled'
  <2>1. ~crossed'[t] /\ losses = 0 =>
           s.timer # S!NoToken \/ \E g \in F : g.why = "renew" /\ g.at = "token"
    BY <1>2, <1>3, <1>8, <1>11 DEF SessionInv, Scheduled
  <2> QED
    BY <1>4, <1>6, <1>10, <2>1 DEF SessionInv, Scheduled
<1>16. ActsAsShown'
  BY <1>4, <1>6, <1>8, <1>10 DEF SessionInv, ActsAsShown, S!ActsAsShown
<1> QED
  BY <1>13, <1>14, <1>15, <1>16 DEF SessionInv

LEMMA ForgetsInv ==
  ASSUME SessionInv, NEW u \in Users, S!Forgets(u)
  PROVE  SessionInv'
BY DEF S!Forgets, SessionInv, SessionTypes, NewestStored, Scheduled, ActsAsShown,
       S!ActsAsShown, NoLater

LEMMA TickInv ==
  ASSUME SessionInv, S!Tick
  PROVE  SessionInv'
<1>1. /\ storage' = S!Older(storage)
      /\ tab' = [t \in Tabs |-> [tab[t] EXCEPT !.mine = S!Older(tab[t].mine),
                     !.ws = S!Older(tab[t].ws), !.timer = S!Older(tab[t].timer)]]
      /\ flows' = flows /\ losses' = losses /\ crossed' = crossed /\ renewed' = renewed
      /\ \A t \in Tabs : flows[t] = {}
  BY DEF S!Tick
<1>2. ASSUME NEW t \in Tabs
      PROVE  /\ tab[t].mine \in Tokens /\ tab[t].ws \in Tokens /\ tab[t].timer \in Tokens
             /\ storage \in Tokens
  BY TabIs DEF Shown
<1>3. ASSUME NEW t \in Tabs
      PROVE  /\ tab'[t] \in Shown /\ tab'[t].user = tab[t].user
             /\ tab'[t].mine = S!Older(tab[t].mine) /\ tab'[t].ws = S!Older(tab[t].ws)
             /\ tab'[t].timer = S!Older(tab[t].timer)
  BY <1>1, <1>2, TabIs, OlderIs DEF Shown
<1>4. storage' \in Tokens /\ storage'.user = storage.user
  BY <1>1, OlderIs DEF SessionInv, SessionTypes
<1>5. SessionTypes'
  BY <1>1, <1>3, <1>4 DEF SessionInv, SessionTypes
<1>6. NewestStored'
  BY <1>1, <1>2, <1>3, OlderKeeps DEF SessionInv, NewestStored
<1>7. Scheduled'
  <2>1. \A t \in Tabs : tab'[t].timer = S!NoToken => tab[t].timer = S!NoToken
    BY <1>2, <1>3, OlderIs
  <2> QED
    BY <1>1, <1>3, <2>1 DEF SessionInv, Scheduled
<1>8. ActsAsShown'
  BY <1>1, <1>3, <1>4 DEF SessionInv, ActsAsShown, S!ActsAsShown
<1> QED
  BY <1>5, <1>6, <1>7, <1>8 DEF SessionInv

-----------------------------------------------------------------------------
(* The theorems *)

LEMMA SessionInit == S!Init => SessionInv
<1> SUFFICES ASSUME S!Init
             PROVE  SessionInv
  OBVIOUS
<1>1. S!Closed \in Shown /\ S!Closed.user = None /\ S!Closed.mine = S!NoToken
      /\ S!Closed.timer = S!NoToken
  BY ClosedIs DEF S!Closed
<1>2. storage \in Tokens /\ losses \in Nat
  BY NoTokenIs DEF S!Init
<1> QED
  BY <1>1, <1>2 DEF S!Init, SessionInv, SessionTypes, NewestStored, Scheduled, ActsAsShown,
                    S!ActsAsShown, NoLater

LEMMA SessionNext == SessionInv /\ [S!Next]_S!vars => SessionInv'
<1> SUFFICES ASSUME SessionInv, [S!Next]_S!vars
             PROVE  SessionInv'
  OBVIOUS
<1>1. ASSUME NEW t \in Tabs, NEW f \in flows[t], S!Answers(t, f)
      PROVE  SessionInv'
  BY <1>1, TokenComesInv, MeComesInv, MeIsNullInv, RefusedInv, LostInv DEF S!Answers
<1>2. ASSUME NEW t \in Tabs,
             \/ S!Opens(t) \/ S!Closes(t) \/ S!Sleeps(t) \/ S!Looked(t) \/ S!Visits(t)
             \/ S!Fires(t) \/ S!SignsOut(t) \/ \E u \in Users : S!SignsIn(t, u)
      PROVE  SessionInv'
  BY <1>2, OpensInv, ClosesInv, SleepsInv, LookedInv, VisitsInv, FiresInv, SignsOutInv,
     SignsInInv
<1>3. CASE UNCHANGED S!vars
  BY <1>3 DEF S!vars, SessionInv, SessionTypes, NewestStored, Scheduled, ActsAsShown,
              S!ActsAsShown, NoLater
<1> QED
  BY <1>1, <1>2, <1>3, ForgetsInv, TickInv DEF S!Next

\* The inductive invariant: see SessionInv.
THEOREM SessionInductive == S!Spec => []SessionInv
BY SessionInit, SessionNext, PTL DEF S!Spec

\* A tab that shows a user sends its requests as that user, and its websocket speaks with the
\* same token, however tabs, timers and answers interleave (frontend/src/contexts/AuthContext).
THEOREM ActsAsShownHolds == S!Spec => []ActsAsShown
BY SessionInductive, PTL DEF SessionInv

\* The token of a tab that shows a user does not run out: with nothing under way its timer is
\* set, for a token that ends no later than that in the storage.
THEOREM SessionIsKept == S!Spec => []SessionKept
<1>1. SessionInv => SessionKept
  <2> SUFFICES ASSUME SessionInv, NEW t \in Tabs, tab[t].user # None, flows[t] = {},
                      ~S!Due(t), ~crossed[t], losses = 0
               PROVE  storage.left > 0
    BY DEF SessionKept, S!SessionKept
  <2>1. tab[t].timer # S!NoToken
    BY DEF SessionInv, Scheduled
  <2>2. storage \in Tokens /\ tab[t].timer \in Tokens
    BY TabIs DEF Shown
  <2>3. storage # S!NoToken
    BY DEF SessionInv, ActsAsShown, S!ActsAsShown, S!NoToken
  <2>4. tab[t].timer.left <= storage.left
    BY <2>1, <2>3 DEF SessionInv, NewestStored, NoLater
  <2>5. ~(tab[t].timer.left <= Soon)
    BY <2>1 DEF S!Due, S!ShouldRefreshSoon
  <2>6. tab[t].timer.left \in Int /\ storage.left \in Int /\ Soon \in Nat
    BY <2>1, <2>2, <2>3, SessionAssumption DEF Tokens, S!SessionAssumption
  <2> QED
    BY <2>4, <2>5, <2>6
<1> QED
  BY <1>1, SessionInductive, PTL

=============================================================================
