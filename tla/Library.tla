------------------------------- MODULE Library -------------------------------
(***************************************************************************)
(* The scan -> enrich -> fetch pipeline: internal/library with the parts   *)
(* of internal/scanner and internal/details it drives.                     *)
(*                                                                         *)
(* A pipeline runs on the goroutine Boot that Start launches, or on the    *)
(* goroutine of an accepted POST /api/rescan; Library.mu lets one of them  *)
(* in at a time.  HTTP handlers read the catalog at any step, so the       *)
(* catalog (an atomic pointer, replaced by every scan and every            *)
(* enrichment) is read and stored in separate steps here.  One step of     *)
(* FetchAll handles one game, with an outcome of GameCache.                *)
(***************************************************************************)
EXTENDS GameCache

CONSTANTS
    Requests,   \* goroutines serving POST /api/rescan
    Boot,       \* the startup goroutine
    Free        \* Library.mu is not held

ASSUME LibraryAssumption ==
    /\ Boot \notin Requests
    /\ Free \notin Requests \union {Boot}

Threads == Requests \union {Boot}

maxRescanIterations == 3

VARIABLES
    listening,   \* Start returned: the HTTP listener accepts requests
    configured,  \* cover_art_api = "igdb": the cache has a fetcher
    lock,        \* the holder of Library.mu
    pc,          \* where each goroutine is
    job,         \* the locals of each goroutine's runPipelineLocked
    catalog,     \* the published catalog
    roms,        \* ROM files in the configured directories
    fetching,    \* Cache.fetching
    stale,       \* history: the ROM files changed since the process started or
                 \* read them for the catalog, or could not be read then
    ended        \* history: how the last pipeline ended

diskVars  == <<roms, covers>>
vars == <<listening, configured, lock, pc, job, catalog, diskVars, cacheVars,
          fetching, stale, ended>>

\* A catalog: the games scanned, those with hasCover, those with IGDB fields.
Catalogs == [games : SUBSET Games, cover : SUBSET Games, meta : SUBSET Games]
Empty    == [games |-> {}, cover |-> {}, meta |-> {}]

\* seen is the catalog under construction, todo what FetchAll has left, saved
\* whether it counted a saved game.
Jobs  == [iter : 0 .. maxRescanIterations - 1, seen : Catalogs,
          todo : SUBSET Games, saved : BOOLEAN]
NoJob == [iter |-> 0, seen |-> Empty, todo |-> {}, saved |-> FALSE]

\* The places inside runPipelineLocked.
Pipeline == {"scan", "publish", "enrich", "store", "entries", "fetch"}

TypeOK ==
    /\ listening \in BOOLEAN
    /\ configured \in BOOLEAN
    /\ lock \in Threads \union {Free}
    /\ pc \in [Threads -> Pipeline \union {"start", "first", "wait", "idle"}]
    /\ job \in [Threads -> Jobs]
    /\ catalog \in Catalogs
    /\ roms \subseteq Games
    /\ CacheTypeOK
    /\ fetching \in Int
    /\ stale \in BOOLEAN
    /\ ended \in {"never", "settled", "capped"}

\* A fresh process on whatever files an earlier one and the user left.
Init ==
    /\ listening = FALSE
    /\ configured \in BOOLEAN
    /\ lock = Free
    /\ pc = [t \in Threads |-> IF t = Boot THEN "start" ELSE "idle"]
    /\ job = [t \in Threads |-> NoJob]
    /\ catalog = Empty
    /\ roms \in SUBSET Games
    /\ CacheInit
    /\ fetching = 0
    /\ stale = FALSE
    /\ ended = "never"

Goto(t, from, to) ==
    /\ pc[t] = from
    /\ pc' = [pc EXCEPT ![t] = to]

-----------------------------------------------------------------------------
(* internal/scanner *)

\* scan reads the directories: a console whose ROM directory cannot be read
\* loses its games.  One step stands for the reads of all consoles.
ReadDirs(t) ==
    \E readable \in SUBSET roms :
        job' = [job EXCEPT ![t].seen =
                   [games |-> readable, cover |-> readable \intersect covers, meta |-> {}]]

\* scan publishes what it built.
PublishScan(t) ==
    /\ catalog' = job[t].seen
    /\ stale' = (job[t].seen.games # roms)

\* EnrichMetadata copies the current catalog ...
LoadCatalog(t) == job' = [job EXCEPT ![t].seen = catalog]

\* Mutant of StoreEnriched: the loop stops at the first game without details.
StoreEnrichedPrefix(t) ==
    catalog' = [job[t].seen EXCEPT
                  !.meta = {g \in job[t].seen.games :
                              \A h \in job[t].seen.games :
                                  h <= g => KeyOf[h] \in details}]

\* ... asks the cache about each of its games, and publishes the copy.
StoreEnriched(t) ==
    catalog' = [job[t].seen EXCEPT
                  !.meta = @ \union {g \in job[t].seen.games : KeyOf[g] \in details}]

-----------------------------------------------------------------------------
(* internal/library: entry points *)

\* Mutant of StartScan: main starts the listener without waiting for Start.
StartScanListening ==
    /\ Goto(Boot, "start", "first")
    /\ ReadDirs(Boot)
    /\ listening' = TRUE
    /\ UNCHANGED <<configured, lock, catalog, diskVars, cacheVars, fetching,
                   stale, ended>>

\* Start scans before main lets the listener come up ...
StartScan ==
    /\ Goto(Boot, "start", "first")
    /\ ReadDirs(Boot)
    /\ UNCHANGED <<listening, configured, lock, catalog, diskVars, cacheVars,
                   fetching, stale, ended>>

\* ... and launches RunPipeline, which asks for the mutex at its own pace.
StartPublish ==
    /\ Goto(Boot, "first", "wait")
    /\ PublishScan(Boot)
    /\ listening' = TRUE
    /\ job' = [job EXCEPT ![Boot] = NoJob]
    /\ UNCHANGED <<configured, lock, diskVars, cacheVars, fetching, ended>>

\* RunPipeline: Lock.
Lock ==
    /\ Goto(Boot, "wait", "scan")
    /\ lock = Free
    /\ lock' = Boot
    /\ UNCHANGED <<listening, configured, job, catalog, diskVars, cacheVars,
                   fetching, stale, ended>>

\* Mutant of TriggerRescan: the mutex is taken without being tried.
TriggerRescanUnlocked(t) ==
    /\ listening
    /\ Goto(t, "idle", "scan")
    /\ lock' = t
    /\ UNCHANGED <<listening, configured, job, catalog, diskVars, cacheVars,
                   fetching, stale, ended>>

\* TriggerRescan: TryLock succeeds and the pipeline starts on t.
TriggerRescan(t) ==
    /\ listening
    /\ lock = Free
    /\ Goto(t, "idle", "scan")
    /\ lock' = t
    /\ UNCHANGED <<listening, configured, job, catalog, diskVars, cacheVars,
                   fetching, stale, ended>>

\* TryLock fails: 409, and nothing happens.
TriggerRefused(t) ==
    /\ listening
    /\ lock # Free
    /\ pc[t] = "idle"
    /\ UNCHANGED vars

-----------------------------------------------------------------------------
(* runPipelineLocked *)

\* ScanBlocking: read the directories ...
Scan(t) ==
    /\ Goto(t, "scan", "publish")
    /\ ReadDirs(t)
    /\ UNCHANGED <<listening, configured, lock, catalog, diskVars, cacheVars,
                   fetching, stale, ended>>

\* ... and publish the catalog, without IGDB fields for the moment.
Publish(t) ==
    /\ Goto(t, "publish", "enrich")
    /\ PublishScan(t)
    /\ UNCHANGED <<listening, configured, lock, job, diskVars, cacheVars,
                   fetching, ended>>

\* EnrichMetadata: load ...
EnrichLoad(t) ==
    /\ Goto(t, "enrich", "store")
    /\ LoadCatalog(t)
    /\ UNCHANGED <<listening, configured, lock, catalog, diskVars, cacheVars,
                   fetching, stale, ended>>

\* ... and store.
EnrichStore(t) ==
    /\ Goto(t, "store", "entries")
    /\ StoreEnriched(t)
    /\ UNCHANGED <<listening, configured, lock, job, diskVars, cacheVars,
                   fetching, stale, ended>>

\* Mutant of Finish: the early return of a settled loop forgets to unlock.
FinishHeld(t, how) ==
    /\ pc' = [pc EXCEPT ![t] = "idle"]
    /\ job' = [job EXCEPT ![t] = NoJob]
    /\ lock' = IF how = "settled" THEN lock ELSE Free
    /\ ended' = how

\* Mutant of Finish: the path that gives up at the cap forgets to unlock.
FinishLeaky(t, how) ==
    /\ pc' = [pc EXCEPT ![t] = "idle"]
    /\ job' = [job EXCEPT ![t] = NoJob]
    /\ lock' = IF how = "capped" THEN lock ELSE Free
    /\ ended' = how

\* return, with the deferred Unlock.
Finish(t, how) ==
    /\ pc' = [pc EXCEPT ![t] = "idle"]
    /\ job' = [job EXCEPT ![t] = NoJob]
    /\ lock' = Free
    /\ ended' = how

\* entriesFromCatalog and the start of FetchAll; without a fetcher FetchAll
\* returns 0, which ends the pipeline.
FetchAll(t) ==
    /\ pc[t] = "entries"
    /\ \/ /\ configured
          /\ pc' = [pc EXCEPT ![t] = "fetch"]
          /\ job' = [job EXCEPT ![t].todo = catalog.games, ![t].saved = FALSE]
          /\ fetching' = fetching + 1
          /\ UNCHANGED <<lock, ended>>
       \/ /\ ~configured
          /\ Finish(t, "settled")
          /\ UNCHANGED fetching
    /\ UNCHANGED <<listening, configured, catalog, diskVars, cacheVars, stale>>

\* The loop of FetchAll takes the games in catalog order.
FetchOne(t) ==
    /\ pc[t] = "fetch"
    /\ \E g \in job[t].todo :
         /\ \A h \in job[t].todo : g <= h
         /\ \/ /\ FetchCached(g) \/ FetchFails(g) \/ FetchNoMatch(g)
               /\ job' = [job EXCEPT ![t].todo = @ \ {g}]
            \/ /\ FetchSaves(g)
               /\ job' = [job EXCEPT ![t].todo = @ \ {g}, ![t].saved = TRUE]
    /\ UNCHANGED <<listening, configured, lock, pc, catalog, roms, fetching,
                   stale, ended>>

\* Mutant of Again: the cap is off by one.
AgainOffByOne(t) == job[t].saved /\ job[t].iter < maxRescanIterations

\* Mutant of Again: whatever was saved waits for the next request.
AgainNever(t) == FALSE

\* The loop's condition: a save asks for another iteration, up to the cap.
Again(t) == job[t].saved /\ job[t].iter + 1 < maxRescanIterations

\* The loop runs out of iterations with something saved in the last one.
HitsCap(t) == job[t].saved /\ job[t].iter + 1 >= maxRescanIterations

\* Mutant of FetchDone: fetching is only decremented when nothing was saved.
FetchDoneBusy(t) ==
    /\ pc[t] = "fetch"
    /\ job[t].todo = {}
    /\ fetching' = IF job[t].saved THEN fetching ELSE fetching - 1
    /\ IF Again(t)
          THEN /\ pc' = [pc EXCEPT ![t] = "scan"]
               /\ job' = [job EXCEPT ![t] = [NoJob EXCEPT !.iter = job[t].iter + 1]]
               /\ UNCHANGED <<lock, ended>>
          ELSE Finish(t, IF HitsCap(t) THEN "capped" ELSE "settled")
    /\ UNCHANGED <<listening, configured, catalog, diskVars, cacheVars, stale>>

\* FetchAll returns: the loop goes on or the pipeline ends.
FetchDone(t) ==
    /\ pc[t] = "fetch"
    /\ job[t].todo = {}
    /\ fetching' = fetching - 1
    /\ \/ /\ Again(t)
          /\ pc' = [pc EXCEPT ![t] = "scan"]
          /\ job' = [job EXCEPT ![t] = [NoJob EXCEPT !.iter = job[t].iter + 1]]
          /\ UNCHANGED <<lock, ended>>
       \/ /\ ~Again(t)
          /\ Finish(t, IF HitsCap(t) THEN "capped" ELSE "settled")
    /\ UNCHANGED <<listening, configured, catalog, diskVars, cacheVars, stale>>

-----------------------------------------------------------------------------
(* The user, next to the running server *)

\* A ROM file is copied into its directory or removed from it.
UserEditsRoms ==
    /\ \E g \in Games : roms' = (roms \ {g}) \union ({g} \ roms)
    /\ stale' = TRUE
    /\ UNCHANGED <<listening, configured, lock, pc, job, catalog, covers,
                   cacheVars, fetching, ended>>

\* A cover file is added by hand, or deleted "to force a re-fetch".
UserEditsCovers ==
    /\ \E g \in Games : covers' = (covers \ {g}) \union ({g} \ covers)
    /\ UNCHANGED <<listening, configured, lock, pc, job, catalog, roms,
                   cacheVars, fetching, stale, ended>>

-----------------------------------------------------------------------------
Step(t) ==
    \/ Scan(t) \/ Publish(t) \/ EnrichLoad(t) \/ EnrichStore(t)
    \/ FetchAll(t) \/ FetchOne(t) \/ FetchDone(t)

\* The server and the clients that ask it for rescans.
ServerNext ==
    \/ StartScan \/ StartPublish \/ Lock
    \/ \E t \in Requests : TriggerRescan(t) \/ TriggerRefused(t)
    \/ \E t \in Threads : Step(t)

Next == ServerNext \/ UserEditsRoms \/ UserEditsCovers

\* The scheduler runs every runnable goroutine; the calls inside FetchOne
\* return because the HTTP clients have timeouts (10 s and 30 s).  A sync.Mutex
\* whose waiter has starved for 1 ms refuses TryLock and is handed to the
\* waiter, so Lock is strongly fair.  Nothing obliges the user, or a browser
\* to ask for a rescan.
Fairness ==
    /\ WF_vars(StartScan)
    /\ WF_vars(StartPublish)
    /\ SF_vars(Lock)
    /\ \A t \in Threads : WF_vars(Step(t))

Spec == Init /\ [][Next]_vars /\ Fairness

-----------------------------------------------------------------------------
(* Safety *)

AtRest == listening /\ lock = Free

\* At most one pipeline runs, and it holds the mutex ("It must be called with
\* l.mu held so at most one pipeline runs at a time").
Exclusive == \A t \in Threads : pc[t] \in Pipeline => lock = t

\* EnrichMetadata reads the catalog, asks the cache about every game and
\* stores a new catalog without holding the scanner's own mutex; no scan may
\* publish in between, or its result would be overwritten by older games.
EnrichKeepsScan == \A t \in Threads : pc[t] = "store" => job[t].seen = catalog

\* Once the listener is up, clients see the ROM files as they were when the
\* last scan read them, never the empty catalog or an older one.
CatalogFresh == listening /\ ~stale => catalog.games = roms

\* Whatever a pipeline saved has reached the catalog when the pipeline ends
\* before its last iteration, or in one that saved nothing: the loop does scan
\* again after FetchAll saved something.
SettledEnriched ==
    (AtRest /\ ended = "settled") =>
        catalog.meta = {g \in catalog.games : KeyOf[g] \in details}

\* GET /api/status reports work only while a pipeline runs: every path out of
\* FetchAll undoes its increment.
StatusHonest ==
    /\ fetching \in {0, 1}
    /\ lock = Free => fetching = 0

(* Liveness *)

\* Every accepted rescan, and the startup pipeline, gives the mutex back.
PipelineEnds == lock # Free ~> lock = Free

\* Start's goroutine gets its turn however often clients ask for rescans.
StartupPipelineRuns == pc[Boot] = "wait" ~> pc[Boot] = "idle"

-----------------------------------------------------------------------------
(* What documents and comments say, and the code does not do *)

\* ARCHITECTURE: missing covers are fetched "after each scan, and a follow-up
\* scan picks up the new images": no pipeline ends with the cover of a known
\* game in the covers directory and absent from the catalog.
FollowUpScanShowsCovers ==
    (AtRest /\ ended # "never") =>
        \A g \in catalog.games \intersect covers :
            KeyOf[g] \in details => g \in catalog.cover
=============================================================================
