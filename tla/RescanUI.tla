------------------------------ MODULE RescanUI ------------------------------
(***************************************************************************)
(* The Rescan button of frontend/app.js over the pipeline of Library.      *)
(*                                                                         *)
(* A page asks for rescans, loads the catalog and polls /api/status; other *)
(* clients ask for rescans of their own.  A request and its answer are     *)
(* steps of their own, and both may be lost.  The page's callbacks run one *)
(* at a time, each to its end, with the finally clause of the click where  *)
(* that callback settles its promise.                                      *)
(***************************************************************************)
EXTENDS Library

CONSTANTS
    Page,      \* the goroutine that serves the page's POST /api/rescan
    MaxClicks  \* bound: rescans of the page that the server accepts

ASSUME RescanAssumption == Page \in Requests /\ MaxClicks \in Nat \ {0}

VARIABLES
    flow,      \* the request the page waits for, or the answer on its way
    enabled,   \* ~rescanBtn.disabled
    timer,     \* statusPollTimer is not null
    armed,     \* a setTimeout of pollCoverStatus is pending
    awaited,   \* the click's finally clause has yet to run
    saw,       \* history: a poll of this click found work in progress
    accepted,  \* history: how many rescans of this page were accepted
    published  \* history: ... of which this many had published their scan

server   == vars
page     == <<flow, enabled, timer, armed, awaited>>
history  == <<saw, accepted, published>>
allVars  == <<server, page, history>>

Requesting == {"post", "load", "poll"}
Answers    == {"accepted", "refused", "failed", "loaded", "busy", "calm", "silent"}

RescanTypeOK ==
    /\ TypeOK
    /\ flow \in {"idle"} \union Requesting \union Answers
    /\ {enabled, timer, armed, awaited, saw} \subseteq BOOLEAN
    /\ 0 <= published /\ published <= accepted /\ accepted <= MaxClicks

\* A page freshly loaded from a server in any state of its start.
RescanInit ==
    /\ Init
    /\ flow = "idle" /\ enabled = TRUE /\ timer = FALSE /\ armed = FALSE /\ awaited = FALSE
    /\ saw = FALSE /\ accepted = 0 /\ published = 0

-----------------------------------------------------------------------------
(* The server's side of the page's requests *)

\* Mutant of ServePost: a rescan asked for during another counts as accepted.
ServePostCoalesced ==
    /\ flow = "post"
    /\ TriggerRescan(Page) \/ (lock # Free /\ UNCHANGED server)
    /\ flow' = "accepted"
    /\ accepted' = accepted + 1
    /\ UNCHANGED <<enabled, timer, armed, awaited, saw, published>>

\* POST /api/rescan: 200 from TriggerRescan, or 409; the answer may be lost.
ServePost ==
    /\ flow = "post"
    /\ \/ /\ TriggerRescan(Page)
          /\ flow' \in {"accepted", "failed"}
          /\ accepted' = accepted + 1
       \/ /\ lock # Free
          /\ flow' \in {"refused", "failed"}
          /\ UNCHANGED <<server, accepted>>
    /\ UNCHANGED <<enabled, timer, armed, awaited, saw, published>>

\* GET /api/status.
ServeStatus ==
    /\ flow = "poll"
    /\ flow' = IF fetching > 0 THEN "busy" ELSE "calm"
    /\ UNCHANGED <<server, enabled, timer, armed, awaited, history>>

\* GET /api/games; loadCatalog catches its own errors.
ServeCatalog ==
    /\ flow = "load"
    /\ flow' = "loaded"
    /\ UNCHANGED <<server, enabled, timer, armed, awaited, history>>

\* A request does not reach the server, or its answer the page.
Lost ==
    /\ \/ flow = "post" /\ flow' = "failed"
       \/ flow \in {"poll", "busy", "calm"} /\ flow' = "silent"
    /\ UNCHANGED <<server, enabled, timer, armed, awaited, history>>

-----------------------------------------------------------------------------
(* The page's callbacks *)

\* Mutant of Finally: the button is reset whatever polls.
FinallyAlways(b) == awaited \/ b

\* The finally clause: the button comes back unless a poll is to follow; b is
\* what the callback itself makes of the button.
Finally(b) == IF awaited /\ ~timer' THEN TRUE ELSE b

\* The end of a chain of promises.
Settle(b) ==
    /\ flow' = "idle"
    /\ enabled' = Finally(b)
    /\ awaited' = FALSE

Click ==
    /\ enabled
    /\ accepted < MaxClicks
    /\ enabled' = FALSE
    /\ flow' = "post"
    /\ awaited' = TRUE
    /\ saw' = FALSE
    /\ UNCHANGED <<server, timer, armed, accepted, published>>

\* The 409's return and the catch clause: an alert, and nothing else.
PostFails ==
    /\ flow \in {"refused", "failed"}
    /\ UNCHANGED <<timer, armed>>
    /\ Settle(enabled)
    /\ UNCHANGED <<server, history>>

\* loadCatalog().then(pollCoverStatus)
LoadThenPoll ==
    /\ \/ flow = "accepted" /\ flow' = "load"
       \/ flow = "loaded" /\ flow' = "poll"
    /\ UNCHANGED <<server, enabled, timer, armed, awaited, history>>

\* fetchingDetails: poll again in two seconds.
PollBusy ==
    /\ flow = "busy"
    /\ timer' = TRUE
    /\ armed' = TRUE
    /\ saw' = TRUE
    /\ Settle(FALSE)
    /\ UNCHANGED <<server, accepted, published>>

\* Mutant of PollCalm: the identifier of the timer that fired is kept.
PollCalmStale ==
    /\ flow = "calm"
    /\ UNCHANGED timer
    /\ Settle(TRUE)
    /\ UNCHANGED <<server, armed, history>>

\* Nothing in progress: the last loadCatalog is sent, and nobody awaits it.
PollCalm ==
    /\ flow = "calm"
    /\ timer' = FALSE
    /\ Settle(TRUE)
    /\ UNCHANGED <<server, armed, history>>

PollFails ==
    /\ flow = "silent"
    /\ timer' = FALSE
    /\ Settle(TRUE)
    /\ UNCHANGED <<server, armed, history>>

\* The timer fires; its identifier stays in statusPollTimer.
PollAgain ==
    /\ armed
    /\ flow = "idle"
    /\ armed' = FALSE
    /\ flow' = "poll"
    /\ UNCHANGED <<server, enabled, timer, awaited, history>>

Callback ==
    \/ PostFails \/ LoadThenPoll \/ PollBusy \/ PollCalm \/ PollFails \/ PollAgain

\* The user reloads the page: its script starts afresh, the server goes on.
Reload ==
    /\ flow # "idle" \/ ~enabled
    /\ flow' = "idle" /\ enabled' = TRUE
    /\ timer' = FALSE /\ armed' = FALSE /\ awaited' = FALSE
    /\ UNCHANGED <<server, history>>

-----------------------------------------------------------------------------
\* The server by itself, with the other clients and the user's files.
ServerStep ==
    /\ \/ StartScan \/ StartPublish \/ Lock
       \/ \E t \in Requests \ {Page} : TriggerRescan(t)
       \/ \E t \in Threads : Step(t)
       \/ UserEditsRoms \/ UserEditsCovers
    /\ published' = IF pc[Page] = "publish" /\ pc'[Page] # "publish"
                       THEN accepted ELSE published
    /\ UNCHANGED <<page, saw, accepted>>

Answer == ServePost \/ ServeStatus \/ ServeCatalog \/ Lost

RescanNext == ServerStep \/ Answer \/ Click \/ Callback \/ Reload

\* The browser runs its callbacks and its timers, and every fetch is answered
\* or fails; a request that finds the listener not up yet is lost.
RescanSpec ==
    /\ RescanInit /\ [][RescanNext]_allVars
    /\ Fairness
    /\ WF_allVars(Answer)
    /\ WF_allVars(Callback)

-----------------------------------------------------------------------------
(* Properties *)

\* app_rescan_test.js calls it the button-recovery invariant: the button is
\* disabled exactly while a chain of requests, or the timer that continues it,
\* is alive, so there is never a second chain, and the user is never locked out
\* by a timer that will not fire.
OneChain == enabled <=> flow = "idle" /\ ~armed

\* A poll that finds no work after one that did tells the page that a scan of
\* its own click is published: the catalog it then loads is not the one it
\* asked to be replaced, whatever rescans of others go on.
PollProvesScan == flow = "calm" /\ saw => published = accepted

\* Once other clients leave the server alone, the button always comes back,
\* whatever requests and answers are lost.
ButtonReturns ==
    <>[](\A t \in Requests \ {Page} : pc[t] = "idle") => (~enabled ~> enabled)
=============================================================================
