------------------------------- MODULE Drafts -------------------------------
(***************************************************************************)
(* A user's auction before it starts: the form of the page that creates    *)
(* it, the copy in localStorage, the draft document, and the requests that *)
(* carry one to the other: a save when the page is left, a save or a fetch *)
(* when the user is known, a submission, which is a save and then a start. *)
(* Nothing on the client waits for a save, and the server looks for the    *)
(* draft in one step and writes it in another.                             *)
(*                                                                         *)
(* What is typed is a number, each edit the next one; Blank is the form    *)
(* nobody has filled in, which cannot be started.  One user, one browser   *)
(* tab.  Two requests alike in everything are one.                         *)
(***************************************************************************)
EXTENDS Naturals, FiniteSets, FiniteSetsExt

CONSTANTS
    MaxAuctions,  \* bound: documents of the user
    MaxEdits,     \* bound: edits
    MaxCalls,     \* bound: requests under way
    MaxLosses,    \* bound: requests that fail on the way
    MaxSessions   \* bound: times the user leaves: reloads and logouts

\* What the constants are; the module that instantiates this one assumes it.
DraftsAssumption ==
    /\ {MaxAuctions, MaxCalls} \subseteq Nat \ {0}
    /\ {MaxEdits, MaxLosses, MaxSessions} \subseteq Nat

VARIABLES
    auctions,   \* the documents, in the order of createdAt
    local,      \* localStorage: auctionDraft:<user>
    form,       \* the form of the open page, NoDraft while it is closed
    edited,     \* hasUserEditsRef
    submitting, \* the page's loading flag
    loading,    \* the page has asked for the draft
    signed,     \* the user is signed in
    synced,     \* draftSyncDoneRef
    fetch,      \* the request for the draft when the user becomes known
    calls,      \* the other requests
    sessions, losses, edits, \* how many so far
    typed,      \* history: what was typed last and not submitted
    hasty,      \* history: it was typed or left too soon to be safe
    holds       \* history: submissions answered that nothing disturbed

browser == <<local, form, edited, submitting, loading>>
session == <<signed, synced, fetch, sessions>>
history == <<edits, typed, hasty, holds>>
vars == <<auctions, browser, session, calls, losses, history>>

NoDraft == MaxEdits + 1
Blank == 0
Contents == Blank..MaxEdits

Ids == 1..MaxAuctions
None == 0
NoAuction == [status |-> "none", content |-> Blank]
NoRequest == [at |-> "none", content |-> NoDraft]
Asked == [at |-> "asked", content |-> NoDraft]

Call == [what : {"save", "start"}, content : Contents, found : Ids \cup {None},
         by : {"page", "left", "nobody"}, calm : BOOLEAN,
         at : {"find", "write", "check", "activate", "answered"}]

TypeOK ==
    /\ auctions \in [Ids -> [status : {"none", "draft", "active"}, content : Contents]]
    /\ {local, form, typed} \subseteq Contents \cup {NoDraft}
    /\ {edited, submitting, loading, signed, synced, hasty} \subseteq BOOLEAN
    /\ fetch \in [at : {"none", "asked", "answered"}, content : Contents \cup {NoDraft}]
    /\ calls \subseteq Call
    /\ sessions \in 0..MaxSessions /\ losses \in 0..MaxLosses /\ edits \in 0..MaxEdits
    /\ holds \subseteq [id : Ids, content : Contents]

Init ==
    /\ auctions = [i \in Ids |-> NoAuction]
    /\ local = NoDraft /\ form = NoDraft /\ edited = FALSE /\ submitting = FALSE
    /\ loading = FALSE
    /\ signed = FALSE /\ synced = FALSE /\ fetch = NoRequest /\ sessions = 0
    /\ calls = {} /\ losses = 0
    /\ edits = 0 /\ typed = NoDraft /\ hasty = FALSE /\ holds = {}

PageOpen == form # NoDraft

\* Nothing has been asked that is not answered.
Quiet == calls = {} /\ ~loading /\ fetch = NoRequest

-----------------------------------------------------------------------------
(* POST /auctions: a draft of the user's is looked for, then written *)

Drafted == {i \in Ids : auctions[i].status = "draft"}

\* Fault: the newest auction of the user, whatever its status.
NewestOf == IF \E i \in Ids : auctions[i].status # "none"
            THEN Max({i \in Ids : auctions[i].status # "none"}) ELSE None

\* findDraftByCreator: the newest draft of the user
FindDraft == IF Drafted = {} THEN None ELSE Max(Drafted)

Finds(c) ==
    /\ c.at = "find"
    /\ calls' = (calls \ {c}) \cup {[c EXCEPT !.at = "write", !.found = FindDraft]}
    /\ UNCHANGED <<auctions, browser, session, losses, history>>

\* What was found is written over whatever it has become; if there was nothing, the
\* document is a new one.
Writes(c) ==
    LET id == IF c.found # None THEN c.found
              ELSE Min({i \in Ids : auctions[i].status = "none"})
    IN  /\ c.at = "write"
        /\ c.found = None => \E i \in Ids : auctions[i].status = "none"
        /\ auctions' = [auctions EXCEPT ![id].status = "draft", ![id].content = c.content]
        /\ calls' = (calls \ {c}) \cup
              (IF c.by = "nobody" THEN {} ELSE {[c EXCEPT !.at = "answered", !.found = id]})
        /\ UNCHANGED <<browser, session, losses, history>>

-----------------------------------------------------------------------------
(* POST /auctions/:id/start *)

Checks(c) ==
    /\ c.at = "check"
    /\ auctions[c.found].status = "draft" /\ auctions[c.found].content # Blank
    /\ calls' = (calls \ {c}) \cup {[c EXCEPT !.at = "activate"]}
    /\ UNCHANGED <<auctions, browser, session, losses, history>>

\* The page still there learns of the failure and lets the user try again.
Told(c) == submitting' = (submitting /\ c.by # "page")

Refuses(c) ==
    /\ c.at = "check"
    /\ auctions[c.found].status # "draft" \/ auctions[c.found].content = Blank
    /\ calls' = calls \ {c}
    /\ Told(c)
    /\ UNCHANGED <<auctions, local, form, edited, loading, session, losses, history>>

\* What is active now is what the document holds now.  Auction has the opening of the first
\* round, which follows.
Activates(c) ==
    /\ c.at = "activate"
    /\ auctions' = [auctions EXCEPT ![c.found].status = "active"]
    /\ calls' = (calls \ {c}) \cup
          (IF c.by = "nobody" THEN {} ELSE {[c EXCEPT !.at = "answered"]})
    /\ typed' = IF typed = auctions[c.found].content THEN NoDraft ELSE typed
    /\ UNCHANGED <<browser, session, losses, edits, hasty, holds>>

-----------------------------------------------------------------------------
(* GET /auctions/my-draft *)

Served == IF Drafted = {} THEN NoDraft ELSE auctions[Max(Drafted)].content

ServesFetch ==
    /\ fetch.at = "asked"
    /\ fetch' = [at |-> "answered", content |-> Served]
    /\ UNCHANGED <<auctions, browser, signed, synced, sessions, calls, losses, history>>

-----------------------------------------------------------------------------
(* The page *)

Save(content) == [what |-> "save", content |-> content, found |-> None, by |-> "nobody",
                  calm |-> FALSE, at |-> "find"]

\* The local copy, if there is one, is what the form shows; the server is asked otherwise.
Opens ==
    /\ signed /\ ~PageOpen
    /\ form' = IF local # NoDraft THEN local ELSE Blank
    /\ loading' = (local = NoDraft)
    /\ edited' = FALSE /\ submitting' = FALSE
    /\ hasty' = (hasty \/ calls # {})
    /\ UNCHANGED <<auctions, local, session, calls, losses, edits, typed, holds>>

\* The server's draft replaces what the form shows.  It is read and arrives in one step:
\* all that can happen in between is in hasty already.
Loads ==
    /\ loading
    /\ loading' = FALSE
    /\ local' = IF Served # NoDraft THEN Served ELSE local
    /\ form' = IF Served # NoDraft THEN Served ELSE form
    /\ UNCHANGED <<auctions, edited, submitting, session, calls, losses, history>>

Types ==
    /\ PageOpen /\ edits < MaxEdits
    /\ edits' = edits + 1
    /\ form' = edits + 1 /\ edited' = TRUE
    /\ typed' = edits + 1 /\ hasty' = ~Quiet
    /\ UNCHANGED <<auctions, local, submitting, loading, session, calls, losses, holds>>

\* 100 ms without an edit, or after the page opened
Debounces ==
    /\ PageOpen /\ local # form
    /\ local' = form
    /\ UNCHANGED <<auctions, form, edited, submitting, loading, session, calls, losses, history>>

\* Its fields are required.
Submits ==
    /\ PageOpen /\ form # Blank /\ ~submitting
    /\ Cardinality(calls) < MaxCalls
    /\ submitting' = TRUE
    /\ calls' = calls \cup {[Save(form) EXCEPT !.by = "page", !.calm = Quiet]}
    /\ UNCHANGED <<auctions, local, form, edited, loading, session, losses, edits, typed, hasty, holds>>

\* Who asked is no longer on the screen.
Left(cs) == {[c EXCEPT !.by = IF @ = "page" THEN "left" ELSE @] : c \in cs}

\* Fault: what was typed stays in localStorage only.
UnmountsSilently(cs) ==
    /\ form' = NoDraft /\ edited' = FALSE /\ submitting' = FALSE /\ loading' = FALSE
    /\ calls' = Left(cs)

\* The page is unmounted among the requests cs: an edited form is sent to the server.
Unmounts(cs) ==
    /\ form' = NoDraft /\ edited' = FALSE /\ submitting' = FALSE /\ loading' = FALSE
    /\ calls' = Left(cs) \cup (IF edited THEN {Save(form)} ELSE {})

Leaves ==
    /\ PageOpen
    /\ edited => Cardinality(calls) < MaxCalls
    /\ Unmounts(calls)
    /\ hasty' = (hasty \/ local # form \/ loading)
    /\ UNCHANGED <<auctions, local, session, losses, edits, typed, holds>>

\* The draft of a submission has been written, whether or not the page is still open.
GoesOnToStart(c) ==
    /\ c.what = "save" /\ c.at = "answered"
    /\ calls' = (calls \ {c}) \cup
          (IF signed THEN {[c EXCEPT !.what = "start", !.at = "check"]} ELSE {})
    /\ UNCHANGED <<auctions, browser, session, losses, history>>

\* The auction has started: the local copy is removed, and the user taken to the auction,
\* away from whatever form is on the screen.
SubmissionDone(c) ==
    LET calm == c.calm /\ c.by = "page"
    IN  /\ c.what = "start" /\ c.at = "answered"
        /\ local' = NoDraft
        /\ IF PageOpen THEN Unmounts(calls \ {c})
           ELSE calls' = calls \ {c} /\ UNCHANGED <<form, edited, submitting, loading>>
        /\ holds' = IF calm THEN holds \cup {[id |-> c.found, content |-> c.content]} ELSE holds
        /\ UNCHANGED <<auctions, session, losses, edits, typed, hasty>>

-----------------------------------------------------------------------------
(* Signing in and out *)

\* The user becomes known: once per page load and user, a local draft is sent to the
\* server, or the server's is asked for.
Syncs ==
    IF synced THEN UNCHANGED <<synced, fetch, calls>>
    ELSE /\ synced' = TRUE
         /\ IF local # NoDraft
            THEN calls' = calls \cup {Save(local)} /\ fetch' = fetch
            ELSE fetch' = Asked /\ calls' = calls

SignsIn ==
    /\ ~signed
    /\ signed' = TRUE
    /\ ~synced /\ local # NoDraft => Cardinality(calls) < MaxCalls
    /\ Syncs
    /\ hasty' = (hasty \/ calls # {})
    /\ UNCHANGED <<auctions, browser, sessions, losses, edits, typed, holds>>

\* The fetched draft becomes the local copy, whatever that is by now.
FetchArrives ==
    /\ fetch.at = "answered"
    /\ fetch' = NoRequest
    /\ local' = IF fetch.content # NoDraft THEN fetch.content ELSE local
    /\ UNCHANGED <<auctions, form, edited, submitting, loading, signed, synced, sessions, calls,
                   losses, history>>

\* The button is on the dashboard, so the form is closed.
SignsOut ==
    /\ signed /\ ~PageOpen /\ sessions < MaxSessions
    /\ signed' = FALSE /\ sessions' = sessions + 1
    /\ local' = NoDraft
    /\ UNCHANGED <<auctions, form, edited, submitting, loading, synced, fetch, calls, losses, history>>

\* Nothing runs when the tab is reloaded: no save, and nobody waits for an answer.
Reloads ==
    LET gone == {[c EXCEPT !.by = "nobody"] : c \in {d \in calls : d.at # "answered"}}
    IN  /\ sessions < MaxSessions
        /\ sessions' = sessions + 1
        /\ signed' = FALSE /\ synced' = FALSE /\ fetch' = NoRequest
        /\ form' = NoDraft /\ edited' = FALSE /\ submitting' = FALSE /\ loading' = FALSE
        /\ calls' = gone
        /\ hasty' = (hasty \/ (PageOpen /\ local # form) \/ loading)
        /\ UNCHANGED <<auctions, local, losses, edits, typed, holds>>

-----------------------------------------------------------------------------
(* A request fails on its way, or the server stops in the middle of it *)

Loses(c) ==
    /\ losses < MaxLosses
    /\ losses' = losses + 1
    /\ calls' = calls \ {c}
    /\ Told(c)
    /\ hasty' = TRUE
    /\ UNCHANGED <<auctions, local, form, edited, loading, session, edits, typed, holds>>

LosesDraft ==
    /\ losses < MaxLosses
    /\ losses' = losses + 1
    /\ \/ loading /\ loading' = FALSE /\ fetch' = fetch
       \/ fetch # NoRequest /\ fetch' = NoRequest /\ loading' = loading
    /\ hasty' = TRUE
    /\ UNCHANGED <<auctions, local, form, edited, submitting, signed, synced, sessions, calls,
                   edits, typed, holds>>

Serves(c) == Finds(c) \/ Writes(c) \/ Checks(c) \/ Refuses(c) \/ Activates(c)

Next ==
    \/ \E c \in calls : Serves(c) \/ GoesOnToStart(c) \/ SubmissionDone(c) \/ Loses(c)
    \/ ServesFetch
    \/ Opens \/ Loads \/ Types \/ Debounces \/ Submits \/ Leaves
    \/ SignsIn \/ FetchArrives \/ SignsOut \/ Reloads
    \/ LosesDraft

Spec == Init /\ [][Next]_vars

-----------------------------------------------------------------------------
(* Properties *)

\* A submission that nothing disturbs, which means that nothing else was being asked when
\* the user pressed the button and that the page stayed open until the answer, has
\* started one auction with what was submitted, and it stays started with it: no save
\* that the client sends afterwards, on leaving or on signing in, rewrites it.
SubmissionHolds ==
    \A h \in holds : auctions[h.id] = [status |-> "active", content |-> h.content]

\* What the form would show if it were opened now.
Shown == IF local # NoDraft THEN local ELSE IF Served # NoDraft THEN Served ELSE Blank

\* What the user typed last is what the form shows the next time, through reloads and
\* logouts, until it is submitted.  The exceptions are all in hasty: the user typed, opened
\* the form or signed in while something was still being asked, left the form within the
\* debounce or before the draft had loaded, or a request failed.
DraftKept == typed # NoDraft /\ ~PageOpen /\ Quiet /\ ~hasty => Shown = typed

=============================================================================
