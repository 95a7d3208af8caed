\* Two users, two tabs, tokens of two ticks, a request lost or a user forgotten; two people, a
\* Telegram user, the administrator and a bot, two requests at once, two processes.
SPECIFICATION MCSpec
CONSTANTS
    Users = {u1, u2}
    None = None
    Tabs = {t1, t2}
    Life = 2
    Soon = 1
    Grace = 1
    MaxFlows = 2
    MaxTroubles = 1
    People = {p1, p2}
    Operator = operator
    TelegramIds = {g}
    Names = {admin}
    AdminName = admin
    BotNames = {bot}
    Apis = {a1, a2}
    MaxRequests = 2
    MaxAccounts = 4
    MaxStops = 1
SYMMETRY Alike
INVARIANTS
    
    SessionKept
    OneAccountEach
