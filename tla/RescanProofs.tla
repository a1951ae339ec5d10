---------------------------- MODULE RescanProofs ----------------------------
(***************************************************************************)
(* Proofs about RescanUI, for any games, rescan requests and clicks.       *)
(*                                                                         *)
(* The page's side is a chain: one request, answer or timer at a time.     *)
(* Its proof needs no fact about the server.  The other way round, what a  *)
(* poll proves rests on the mutex of Library, so RescanSpec is shown first *)
(* to implement Library's Spec.                                            *)
(***************************************************************************)
EXTENDS RescanUI, LibraryProofs

USE LibraryAssumption, RescanAssumption DEF Threads, Pipeline

-----------------------------------------------------------------------------
(* The page implements the server's environment *)

LEMMA ServerMoves ==
  ASSUME RescanNext
  PROVE  [Next]_vars
  <1>1. CASE ServerStep
    BY <1>1 DEF ServerStep, Next, ServerNext
  <1>2. CASE Answer
    BY <1>2 DEF Answer, ServePost, ServeStatus, ServeCatalog, Lost, server, Next, ServerNext
  <1>3. CASE Click \/ Callback \/ Reload
    BY <1>3 DEF Click, Callback, PostFails, LoadThenPoll, PollBusy, PollCalm, PollFails,
                PollAgain, Reload, server
  <1>. QED  BY <1>1, <1>2, <1>3 DEF RescanNext

\* With the page in front of it the server behaves as Library says, its
\* fairness included: what holds of Library holds of the two together.
THEOREM RescanImplementsLibrary == RescanSpec => Spec
  <1>1. RescanInit => Init  BY DEF RescanInit
  <1>2. [RescanNext]_allVars => [Next]_vars  BY ServerMoves DEF allVars, server
  <1>. QED  BY <1>1, <1>2, PTL DEF RescanSpec, Spec

-----------------------------------------------------------------------------
(* Types *)

\* The history counts a rescan as published after it was accepted.
HistoryOK ==
    /\ accepted \in 0 .. MaxClicks
    /\ published \in 0 .. accepted
    /\ flow = "post" => accepted < MaxClicks

PageTypeOK ==
    /\ flow \in {"idle"} \union Requesting \union Answers
    /\ {enabled, timer, armed, awaited, saw} \subseteq BOOLEAN

\* The page's callbacks keep the types of what the page holds.
LEMMA PageType ==
  ASSUME PageTypeOK, RescanNext
  PROVE  PageTypeOK'
  <1>. USE DEF PageTypeOK, Requesting, Answers
  <1>1. CASE ServerStep  BY <1>1 DEF ServerStep, page
  <1>2. CASE Answer
    <2>1. flow' \in {"idle"} \union Requesting \union Answers
      BY <1>2 DEF Answer, ServePost, ServeStatus, ServeCatalog, Lost
    <2>2. UNCHANGED <<enabled, timer, armed, awaited, saw>>
      BY <1>2 DEF Answer, ServePost, ServeStatus, ServeCatalog, Lost, history
    <2>. QED  BY <2>1, <2>2
  <1>3. CASE Click  BY <1>3 DEF Click
  <1>4. ASSUME NEW b \in BOOLEAN, Settle(b), timer' \in BOOLEAN
        PROVE  flow' = "idle" /\ {enabled, awaited}' \subseteq BOOLEAN
    BY <1>4 DEF Settle, Finally
  <1>5. CASE PostFails  BY <1>4, <1>5 DEF PostFails, history
  <1>6. CASE LoadThenPoll  BY <1>6 DEF LoadThenPoll, history
  <1>7. CASE PollBusy  BY <1>4, <1>7 DEF PollBusy
  <1>8. CASE PollCalm \/ PollFails  BY <1>4, <1>8 DEF PollCalm, PollFails, history
  <1>9. CASE PollAgain  BY <1>9 DEF PollAgain, history
  <1>10. CASE Reload  BY <1>10 DEF Reload, history
  <1>. QED  BY <1>1, <1>2, <1>3, <1>5, <1>6, <1>7, <1>8, <1>9, <1>10 DEF RescanNext, Callback

-----------------------------------------------------------------------------
(* The page: one chain *)

\* The click's promise is pending up to the first poll, without a timer; an
\* armed timer has its identifier in statusPollTimer and no request beside it.
Clicked == {"post", "accepted", "refused", "failed", "load", "loaded"}

ChainInv ==
    /\ OneChain
    /\ armed => flow = "idle" /\ timer
    /\ enabled => ~timer
    /\ flow \in Clicked => awaited /\ ~timer

LEMMA ChainStep ==
  ASSUME PageTypeOK, ChainInv, RescanNext
  PROVE  ChainInv'
  <1>. USE DEF ChainInv, OneChain, Clicked, PageTypeOK, Requesting, Answers
  <1>1. CASE ServerStep  BY <1>1 DEF ServerStep, page
  <1>2. CASE Answer
    <2>1. /\ flow # "idle" /\ flow' # "idle"
          /\ flow' \in Clicked => flow \in Clicked
          /\ UNCHANGED <<enabled, timer, armed, awaited>>
      BY <1>2 DEF Answer, ServePost, ServeStatus, ServeCatalog, Lost
    <2>. QED  BY <2>1
  <1>3. CASE Click  BY <1>3 DEF Click
  <1>4. CASE PostFails  BY <1>4 DEF PostFails, Settle, Finally
  <1>5. CASE LoadThenPoll  BY <1>5 DEF LoadThenPoll
  <1>6. CASE PollBusy  BY <1>6 DEF PollBusy, Settle, Finally
  <1>7. CASE PollCalm \/ PollFails
    <2>1. /\ flow # "idle" /\ timer' = FALSE /\ Settle(TRUE) /\ UNCHANGED armed
      BY <1>7 DEF PollCalm, PollFails
    <2>2. flow' = "idle" /\ enabled' = TRUE  BY <2>1 DEF Settle, Finally
    <2>. QED  BY <2>1, <2>2
  <1>8. CASE PollAgain  BY <1>8 DEF PollAgain
  <1>9. CASE Reload  BY <1>9 DEF Reload
  <1>. QED  BY <1>1, <1>2, <1>3, <1>4, <1>5, <1>6, <1>7, <1>8, <1>9 DEF RescanNext, Callback

-----------------------------------------------------------------------------
(* The page and the pipeline *)

\* A rescan of this page that is not published yet holds the mutex, and a page
\* that found work since its click has no such rescan.
Owed ==
    /\ published # accepted => pc[Page] \in {"scan", "publish"}
    /\ flow = "busy" \/ saw => published = accepted
    /\ flow = "post" => ~saw

\* Work in progress is the work of the goroutine inside FetchAll, so that no
\* other one is at its scan.
LEMMA BusyMeansPublished ==
  ASSUME IInv, Owed, fetching > 0
  PROVE  published = accepted
  <1>1. lock # Free /\ pc[lock] = "fetch"  BY DEF IInv, StatusExact
  <1>2. Page \in Threads  OBVIOUS
  <1>3. pc[Page] \in {"scan", "publish"} => lock = Page
    BY <1>2 DEF IInv, Mutex, Exclusive
  <1>. QED  BY <1>1, <1>3 DEF Owed

LEMMA OwedStep ==
  ASSUME IInv, PageTypeOK, HistoryOK, Owed, RescanNext
  PROVE  HistoryOK' /\ Owed'
  <1>. USE DEF Owed, HistoryOK
  <1>1. CASE ServerStep
    <2>1. /\ published' = IF pc[Page] = "publish" /\ pc'[Page] # "publish"
                             THEN accepted ELSE published
          /\ UNCHANGED <<flow, saw, accepted>>
      BY <1>1 DEF ServerStep, page
    <2>2. \/ pc'[Page] = pc[Page]
          \/ pc[Page] = "scan" /\ pc'[Page] = "publish"
          \/ pc[Page] \notin {"scan"}
      <3>1. pc \in [Threads -> Pipeline \union {"start", "first", "wait", "idle"}]
        BY DEF IInv, TypeOK
      <3>2. Page # Boot  OBVIOUS
      <3>3. CASE StartScan \/ StartPublish \/ Lock
        BY <3>1, <3>2, <3>3 DEF StartScan, StartPublish, Lock, Goto
      <3>4. ASSUME NEW t \in Requests \ {Page}, TriggerRescan(t)
            PROVE  pc'[Page] = pc[Page]
        BY <3>1, <3>4 DEF TriggerRescan, Goto
      <3>5. ASSUME NEW t \in Threads, Step(t), pc[Page] = "scan"
            PROVE  pc'[Page] = pc[Page] \/ pc'[Page] = "publish"
        BY <3>1, <3>5 DEF Step, Scan, Publish, EnrichLoad, EnrichStore, FetchAll, FetchOne,
                          FetchDone, Finish, Goto
      <3>6. CASE UserEditsRoms \/ UserEditsCovers
        BY <3>6 DEF UserEditsRoms, UserEditsCovers
      <3>. QED  BY <1>1, <3>3, <3>4, <3>5, <3>6 DEF ServerStep
    <2>. QED  BY <2>1, <2>2
  <1>2. CASE ServePost
    <2>1. CASE TriggerRescan(Page) /\ accepted' = accepted + 1 /\ flow' \in {"accepted", "failed"}
      <3>1. pc[Page] = "idle" /\ pc'[Page] = "scan"
        BY <2>1 DEF TriggerRescan, Goto, IInv, TypeOK
      <3>2. flow = "post" /\ UNCHANGED <<saw, published>>  BY <1>2 DEF ServePost
      <3>3. published = accepted  BY <3>1
      <3>. QED  BY <2>1, <3>1, <3>2, <3>3
    <2>2. CASE UNCHANGED <<server, accepted>> /\ flow' \in {"refused", "failed"}
      BY <1>2, <2>2 DEF ServePost, server, vars
    <2>. QED  BY <1>2, <2>1, <2>2 DEF ServePost
  <1>3. CASE ServeStatus
    <2>1. flow' = "busy" => published = accepted
      BY <1>3, BusyMeansPublished DEF ServeStatus
    <2>2. /\ flow' \in {"busy", "calm"}
          /\ UNCHANGED <<pc, saw, accepted, published>>
      BY <1>3 DEF ServeStatus, server, vars, history
    <2>. QED  BY <2>1, <2>2
  <1>4. CASE ServeCatalog \/ Lost \/ Callback \/ Reload
    <2>1. UNCHANGED <<pc, accepted, published>>
      BY <1>4 DEF ServeCatalog, Lost, Callback, PostFails, LoadThenPoll, PollBusy, PollCalm,
                  PollFails, PollAgain, Reload, server, vars, history
    <2>2. flow' \notin {"post", "busy"}
      BY <1>4 DEF ServeCatalog, Lost, Callback, PostFails, LoadThenPoll, PollBusy, PollCalm,
                  PollFails, PollAgain, Reload, Settle
    <2>3. UNCHANGED saw \/ flow = "busy"
      BY <1>4 DEF ServeCatalog, Lost, Callback, PostFails, LoadThenPoll, PollBusy, PollCalm,
                  PollFails, PollAgain, Reload, history
    <2>. QED  BY <2>1, <2>2, <2>3
  <1>5. CASE Click
    BY <1>5 DEF Click, server, vars
  <1>. QED  BY <1>1, <1>2, <1>3, <1>4, <1>5 DEF RescanNext, Answer

-----------------------------------------------------------------------------
(* The two together *)

RescanInv == IInv /\ PageTypeOK /\ HistoryOK /\ ChainInv /\ Owed

LEMMA RescanStart ==
  ASSUME RescanInit
  PROVE  RescanInv
  <1>1. IInv  BY InitInv DEF RescanInit
  <1>2. PageTypeOK  BY DEF RescanInit, PageTypeOK
  <1>3. HistoryOK /\ Owed  BY DEF RescanInit, HistoryOK, Owed
  <1>4. ChainInv  BY DEF RescanInit, ChainInv, OneChain, Clicked
  <1>. QED  BY <1>1, <1>2, <1>3, <1>4 DEF RescanInv

LEMMA RescanStep ==
  ASSUME RescanInv, [RescanNext]_allVars
  PROVE  RescanInv'
  <1>. USE DEF RescanInv
  <1>1. CASE RescanNext
    BY <1>1, ServerMoves, StepInv, PageType, ChainStep, OwedStep
  <1>2. CASE UNCHANGED allVars
    <2>1. UNCHANGED vars  BY <1>2 DEF allVars, server
    <2>2. IInv'  BY <2>1, StepInv
    <2>3. PageTypeOK' /\ HistoryOK'
      BY <1>2 DEF allVars, page, history, PageTypeOK, HistoryOK
    <2>4. ChainInv'
      BY <1>2 DEF allVars, page, ChainInv, OneChain
    <2>5. Owed'  BY <1>2 DEF allVars, server, vars, page, history, Owed
    <2>. QED  BY <2>2, <2>3, <2>4, <2>5
  <1>. QED  BY <1>1, <1>2

LEMMA RescanInvariant == RescanSpec => []RescanInv
  BY RescanStart, RescanStep, PTL DEF RescanSpec

\* Every variable of page and server keeps its type, and no more rescans are
\* published than were accepted.
THEOREM RescanTypeCorrect == RescanSpec => []RescanTypeOK
  <1>1. RescanInv => RescanTypeOK
    BY DEF RescanInv, IInv, PageTypeOK, HistoryOK, RescanTypeOK
  <1>. QED  BY <1>1, RescanInvariant, PTL

\* The button-recovery invariant of app_rescan_test.js: the button is disabled
\* exactly while a chain of requests or its timer is alive.
THEOREM ButtonAndChain == RescanSpec => []OneChain
  <1>1. RescanInv => OneChain  BY DEF RescanInv, ChainInv
  <1>. QED  BY <1>1, RescanInvariant, PTL

\* A poll that finds no work after one that did (pollCoverStatus) tells the
\* page that the scan of its own click is published, whoever else rescans.
THEOREM CalmAfterBusy == RescanSpec => []PollProvesScan
  <1>1. RescanInv => PollProvesScan  BY DEF RescanInv, Owed, PollProvesScan
  <1>. QED  BY <1>1, RescanInvariant, PTL

\* Whatever the page and its rescans do, clients see the result of the latest
\* scan, never older games that an enrichment put back.
THEOREM RescanKeepsScan == RescanSpec => []EnrichKeepsScan /\ []CatalogFresh
  BY RescanImplementsLibrary, NoLostScan, FreshCatalog
=============================================================================
