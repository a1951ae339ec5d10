---------------------------- MODULE LibraryProofs ----------------------------
(***************************************************************************)
(* Proofs about Library, for any games, keys and request goroutines.       *)
(*                                                                         *)
(* The core is Mutex: a goroutine is inside the pipeline exactly when it   *)
(* holds Library.mu.  It makes the load and the store of EnrichMetadata    *)
(* one step as far as other scans are concerned (EnrichKeepsScan), hence   *)
(* CatalogFresh, and it makes the cache's counter a flag (StatusExact).    *)
(* Saves tracks, place by place, how far the enrichment of the catalog has *)
(* got, which gives SettledEnriched when the pipeline ends.                *)
(***************************************************************************)
EXTENDS Library, TLAPS

\* Before the listener is up only Start's own scan runs.
Startup ==
    /\ listening <=> pc[Boot] \notin {"start", "first"}
    /\ \A t \in Requests : pc[t] \in Pipeline \union {"idle"}
    /\ ~listening => lock = Free /\ ended = "never"

\* Who is inside the pipeline holds the mutex, and the reverse.
Mutex ==
    /\ Exclusive
    /\ lock # Free => pc[lock] \in Pipeline

\* fetching counts the one pipeline that is inside FetchAll.
StatusExact ==
    fetching = IF lock # Free /\ pc[lock] = "fetch" THEN 1 ELSE 0

\* The catalog shows the IGDB fields of every game that has details.
Enriched == catalog.meta = {g \in catalog.games : KeyOf[g] \in details}

\* Where the catalog is known to be enriched: after EnrichMetadata until
\* FetchAll saves a game, and at rest if the last pipeline ended by itself.
EnrichedAt ==
    /\ \A t \in Threads :
         /\ pc[t] = "enrich" => catalog.meta = {}
         /\ pc[t] = "store"  => job[t].seen.meta = {}
         /\ pc[t] = "publish" => job[t].seen.meta = {}
         /\ pc[t] = "entries" => Enriched
         /\ pc[t] = "fetch" /\ ~job[t].saved => Enriched
    /\ SettledEnriched

IInv == /\ TypeOK /\ Startup /\ Mutex /\ EnrichKeepsScan /\ CatalogFresh
        /\ StatusExact /\ EnrichedAt

USE GameCacheAssumption, LibraryAssumption DEF Threads, Pipeline, CacheTypeOK

-----------------------------------------------------------------------------
(* Types *)

\* The locals of a goroutine that has just started.
LEMMA EmptyTypes == Empty \in Catalogs /\ NoJob \in Jobs
BY DEF Empty, Catalogs, NoJob, Jobs, maxRescanIterations

LEMMA TypeInit == Init => TypeOK
<1> SUFFICES ASSUME Init PROVE TypeOK
  OBVIOUS
<1>1. /\ pc \in [Threads -> Pipeline \union {"start", "first", "wait", "idle"}]
      /\ job \in [Threads -> Jobs]
  BY EmptyTypes DEF Init
<1>2. /\ catalog \in Catalogs
      /\ fetching \in Int
      /\ ended \in {"never", "settled", "capped"}
      /\ lock \in Threads \union {Free}
  BY EmptyTypes DEF Init
<1>3. /\ roms \subseteq Games
      /\ covers \subseteq Games
      /\ details \subseteq Keys
      /\ notFound \subseteq Keys
      /\ thumbs \subseteq Keys
  BY Zenon DEF Init, CacheInit
<1>4. listening \in BOOLEAN /\ configured \in BOOLEAN /\ stale \in BOOLEAN
  BY DEF Init
<1> QED
  BY <1>1, <1>2, <1>3, <1>4 DEF TypeOK

LEMMA TypeStep ==
    ASSUME TypeOK, [Next]_vars
    PROVE  TypeOK'
<1> USE DEF TypeOK, Goto, maxRescanIterations, cacheVars, diskVars
<1>0. NoJob \in Jobs
  BY EmptyTypes
<1>1. CASE StartScan
  BY <1>1 DEF StartScan, ReadDirs, Jobs, Catalogs
<1>2. CASE StartPublish
  BY <1>0, <1>2 DEF StartPublish, PublishScan, Jobs
<1>3. CASE Lock
  BY <1>3 DEF Lock
<1>4. ASSUME NEW t \in Requests, TriggerRescan(t) \/ TriggerRefused(t)
      PROVE  TypeOK'
  BY <1>4 DEF TriggerRescan, TriggerRefused, vars
<1>5. ASSUME NEW t \in Threads, Step(t)
      PROVE  TypeOK'
  <2>1. CASE Scan(t)
    BY <2>1 DEF Scan, ReadDirs, Jobs, Catalogs
  <2>2. CASE Publish(t)
    BY <2>2 DEF Publish, PublishScan, Jobs
  <2>3. CASE EnrichLoad(t)
    BY <2>3 DEF EnrichLoad, LoadCatalog, Jobs
  <2>4. CASE EnrichStore(t)
    BY <2>4 DEF EnrichStore, StoreEnriched, Jobs, Catalogs
  <2>5. CASE FetchAll(t)
    BY <1>0, <2>5 DEF FetchAll, Finish, Jobs, Catalogs
  <2>6. CASE FetchOne(t)
    <3>1. PICK g \in job[t].todo :
             /\ FetchCached(g) \/ FetchFails(g) \/ FetchNoMatch(g) \/ FetchSaves(g)
             /\ \/ job' = [job EXCEPT ![t].todo = @ \ {g}]
                \/ job' = [job EXCEPT ![t].todo = @ \ {g}, ![t].saved = TRUE]
      BY <2>6 DEF FetchOne
    <3>2. g \in Games /\ KeyOf[g] \in Keys
      BY DEF Jobs, Keys
    <3>3. /\ covers' \subseteq Games
          /\ details' \subseteq Keys
          /\ notFound' \subseteq Keys
          /\ thumbs' \subseteq Keys
      BY <3>1, <3>2 DEF FetchCached, FetchFails, FetchNoMatch, FetchSaves, EnsureCover
    <3>4. job' \in [Threads -> Jobs]
      BY <3>1 DEF Jobs
    <3> QED
      BY <2>6, <3>3, <3>4 DEF FetchOne
  <2>7. CASE FetchDone(t)
    <3>1. CASE Again(t)
      <4>1. job[t].iter + 1 \in 0 .. maxRescanIterations - 1
        BY <3>1 DEF Again, Jobs
      <4>2. [NoJob EXCEPT !.iter = job[t].iter + 1] \in Jobs
        BY <1>0, <4>1 DEF Jobs
      <4>3. job' = [job EXCEPT ![t] = [NoJob EXCEPT !.iter = job[t].iter + 1]]
        BY <2>7, <3>1 DEF FetchDone
      <4>4. job' \in [Threads -> Jobs]
        BY <4>2, <4>3
      <4> QED
        BY <2>7, <3>1, <4>4 DEF FetchDone
    <3>2. CASE ~Again(t)
      BY <1>0, <2>7, <3>2 DEF FetchDone, Finish
    <3> QED
      BY <3>1, <3>2
  <2> QED
    BY <1>5, <2>1, <2>2, <2>3, <2>4, <2>5, <2>6, <2>7 DEF Step
<1>6. CASE UserEditsRoms \/ UserEditsCovers
  BY <1>6 DEF UserEditsRoms, UserEditsCovers
<1>7. CASE UNCHANGED vars
  BY <1>7 DEF vars
<1> QED
  BY <1>1, <1>2, <1>3, <1>4, <1>5, <1>6, <1>7 DEF Next, ServerNext

\* Every variable keeps its type; the cap keeps iter below its bound.
THEOREM TypeCorrect == Spec => []TypeOK
BY TypeInit, TypeStep, PTL DEF Spec

-----------------------------------------------------------------------------
(* The inductive invariant *)

LEMMA InitInv == Init => IInv
<1> SUFFICES ASSUME Init PROVE IInv
  OBVIOUS
<1>1. TypeOK
  BY TypeInit
<1>2. Startup /\ Mutex /\ EnrichKeepsScan /\ StatusExact /\ CatalogFresh
  BY DEF Init, Startup, Mutex, Exclusive, EnrichKeepsScan, StatusExact, CatalogFresh
<1>3. EnrichedAt
  BY DEF Init, EnrichedAt, SettledEnriched, AtRest
<1> QED
  BY <1>1, <1>2, <1>3 DEF IInv

\* Start's own scan publishes before anyone can hold the mutex.
LEMMA StartInv ==
    ASSUME IInv, TypeOK', StartScan \/ StartPublish
    PROVE  IInv'
<1> USE DEF IInv, TypeOK, Goto
<1>1. CASE StartScan
  <2> USE <1>1 DEF StartScan, ReadDirs
  <2>1. Startup' /\ Mutex' /\ StatusExact'
    BY DEF Startup, Mutex, Exclusive, StatusExact
  <2>2. EnrichKeepsScan' /\ CatalogFresh'
    BY DEF EnrichKeepsScan, CatalogFresh, Startup
  <2>3. EnrichedAt'
    BY DEF EnrichedAt, SettledEnriched, AtRest, Enriched, Startup, cacheVars
  <2> QED
    BY <2>1, <2>2, <2>3
<1>2. CASE StartPublish
  <2> USE <1>2 DEF StartPublish, PublishScan
  <2>1. Startup' /\ Mutex' /\ StatusExact'
    BY DEF Startup, Mutex, Exclusive, StatusExact
  <2>2. ~listening /\ \A t \in Threads : pc[t] \notin Pipeline /\ pc'[t] \notin Pipeline
    BY DEF Startup, Mutex, Exclusive
  <2>3. EnrichKeepsScan' /\ CatalogFresh'
    BY <2>2 DEF EnrichKeepsScan, CatalogFresh, diskVars
  <2>4. ended # "settled"
    BY <2>2 DEF Startup
  <2>5. EnrichedAt'
    BY <2>2, <2>4 DEF EnrichedAt, SettledEnriched, AtRest
  <2> QED
    BY <2>1, <2>3, <2>5
<1> QED
  BY <1>1, <1>2

\* Taking the mutex puts one goroutine, and only it, at the first step.
LEMMA AcquireInv ==
    ASSUME IInv, TypeOK', NEW t \in Threads,
           \/ t = Boot /\ Lock
           \/ t \in Requests /\ TriggerRescan(t)
    PROVE  IInv'
<1> USE DEF IInv, TypeOK, Goto
<1>1. /\ lock = Free /\ lock' = t
      /\ pc[t] \in {"wait", "idle"}
      /\ pc' = [pc EXCEPT ![t] = "scan"]
      /\ listening
      /\ UNCHANGED <<listening, job, catalog, diskVars, cacheVars, fetching, stale, ended>>
  BY DEF Lock, TriggerRescan, Startup
<1>2. \A u \in Threads : pc[u] \notin Pipeline
  BY <1>1 DEF Mutex, Exclusive
<1>3. Startup'
  BY <1>1 DEF Startup
<1>4. Mutex' /\ StatusExact'
  BY <1>1, <1>2 DEF Mutex, Exclusive, StatusExact
<1>5. EnrichKeepsScan' /\ CatalogFresh'
  BY <1>1, <1>2 DEF EnrichKeepsScan, CatalogFresh, diskVars
<1>6. EnrichedAt'
  BY <1>1, <1>2 DEF EnrichedAt, SettledEnriched, AtRest
<1> QED
  BY <1>3, <1>4, <1>5, <1>6

\* A step inside the pipeline is a step of the holder, the only one inside.
LEMMA OnlyHolder ==
    ASSUME IInv, NEW t \in Threads, pc[t] \in Pipeline
    PROVE  /\ lock = t /\ lock # Free
           /\ listening
           /\ \A u \in Threads : u # t => pc[u] \notin Pipeline
BY DEF IInv, Mutex, Exclusive, Startup

\* The steps that neither end the pipeline nor fetch.
LEMMA ScanInv ==
    ASSUME IInv, TypeOK', NEW t \in Threads,
           Scan(t) \/ Publish(t) \/ EnrichLoad(t) \/ EnrichStore(t)
    PROVE  IInv'
<1> USE DEF IInv, TypeOK, Goto
<1>1. /\ pc[t] \in {"scan", "publish", "enrich", "store"}
      /\ pc'[t] \in {"publish", "enrich", "store", "entries"}
      /\ \A u \in Threads : u # t => pc'[u] = pc[u]
      /\ UNCHANGED <<listening, lock, roms, cacheVars, fetching, ended>>
  BY DEF Scan, Publish, EnrichLoad, EnrichStore, diskVars
<1>2. /\ lock = t /\ lock # Free
      /\ listening
      /\ \A u \in Threads : u # t => pc[u] \notin Pipeline
  BY <1>1, OnlyHolder
<1>3. Startup' /\ Mutex' /\ StatusExact'
  BY <1>1, <1>2 DEF Startup, Mutex, Exclusive, StatusExact
<1>4. EnrichKeepsScan'
  <2>1. CASE EnrichLoad(t)
    <3>1. job'[t].seen = catalog'
      BY <2>1 DEF EnrichLoad, LoadCatalog, Jobs
    <3> QED
      BY <1>1, <1>2, <3>1 DEF EnrichKeepsScan
  <2>2. CASE Scan(t) \/ Publish(t) \/ EnrichStore(t)
    <3>1. pc'[t] # "store"
      BY <2>2 DEF Scan, Publish, EnrichStore
    <3> QED
      BY <1>1, <1>2, <3>1 DEF EnrichKeepsScan
  <2> QED
    BY <2>1, <2>2
<1>5. CatalogFresh'
  <2>1. CASE Scan(t) \/ EnrichLoad(t)
    BY <1>1, <2>1 DEF CatalogFresh, Scan, EnrichLoad
  <2>2. CASE Publish(t)
    BY <1>1, <2>2 DEF CatalogFresh, Publish, PublishScan
  <2>3. CASE EnrichStore(t)
    <3>1. job[t].seen = catalog
      BY <2>3 DEF EnrichStore, EnrichKeepsScan
    <3>2. catalog'.games = catalog.games /\ stale' = stale
      BY <2>3, <3>1 DEF EnrichStore, StoreEnriched, Catalogs
    <3> QED
      BY <1>1, <3>2 DEF CatalogFresh
  <2> QED
    BY <2>1, <2>2, <2>3
<1>6. EnrichedAt'
  <2>0. SettledEnriched'
    BY <1>1, <1>2 DEF SettledEnriched, AtRest
  <2>1. CASE Scan(t)
    BY <1>1, <1>2, <2>0, <2>1 DEF EnrichedAt, Scan, ReadDirs, Jobs, Catalogs
  <2>2. CASE Publish(t)
    BY <1>1, <1>2, <2>0, <2>2 DEF EnrichedAt, Publish, PublishScan
  <2>3. CASE EnrichLoad(t)
    BY <1>1, <1>2, <2>0, <2>3 DEF EnrichedAt, EnrichLoad, LoadCatalog, Jobs, Catalogs
  <2>4. CASE EnrichStore(t)
    <3>1. pc[t] = "store" /\ pc'[t] = "entries"
      BY <2>4 DEF EnrichStore
    <3>2. job[t].seen.meta = {}
      BY <3>1 DEF EnrichedAt
    <3>3. /\ catalog'.games = job[t].seen.games
          /\ catalog'.meta = {g \in job[t].seen.games : KeyOf[g] \in details}
      BY <2>4, <3>2 DEF EnrichStore, StoreEnriched, Jobs, Catalogs
    <3>4. Enriched'
      BY <1>1, <3>3 DEF Enriched, cacheVars
    <3> QED
      BY <1>1, <1>2, <2>0, <3>1, <3>4 DEF EnrichedAt
  <2> QED
    BY <2>1, <2>2, <2>3, <2>4
<1> QED
  BY <1>3, <1>4, <1>5, <1>6

\* Leaving the pipeline gives the mutex back; both ways to end leave the
\* catalog as it is.
LEMMA FinishInv ==
    ASSUME IInv, TypeOK', NEW t \in Threads, NEW how \in {"settled", "capped"},
           pc[t] \in {"entries", "fetch"}, Finish(t, how),
           how = "settled" => Enriched,
           fetching' = IF pc[t] = "fetch" THEN fetching - 1 ELSE fetching,
           UNCHANGED <<listening, configured, catalog, diskVars, cacheVars, stale>>
    PROVE  IInv'
<1> USE DEF IInv, TypeOK
<1>1. /\ pc'[t] = "idle"
      /\ lock' = Free
      /\ ended' = how
      /\ job'[t] = NoJob
      /\ \A u \in Threads : u # t => pc'[u] = pc[u] /\ job'[u] = job[u]
  BY DEF Finish
<1>2. /\ lock = t /\ lock # Free
      /\ listening
      /\ \A u \in Threads : u # t => pc[u] \notin Pipeline
  BY OnlyHolder
<1>3. Startup'
  BY <1>1, <1>2 DEF Startup
<1>4. Mutex' /\ StatusExact'
  BY <1>1, <1>2 DEF Mutex, Exclusive, StatusExact
<1>5. EnrichKeepsScan' /\ CatalogFresh'
  BY <1>1, <1>2 DEF EnrichKeepsScan, CatalogFresh, diskVars
<1>6. EnrichedAt'
  <2>1. SettledEnriched'
    BY <1>1 DEF SettledEnriched, Enriched, cacheVars
  <2> QED
    BY <1>1, <1>2, <2>1 DEF EnrichedAt
<1> QED
  BY <1>3, <1>4, <1>5, <1>6

\* entriesFromCatalog and FetchAll up to its loop.
LEMMA FetchAllInv ==
    ASSUME IInv, TypeOK', NEW t \in Threads, FetchAll(t)
    PROVE  IInv'
<1> USE DEF IInv, TypeOK
<1>0. Enriched
  BY DEF FetchAll, EnrichedAt
<1>1. CASE ~configured
  BY <1>0, <1>1, FinishInv DEF FetchAll
<1>2. CASE configured
  <2>1. /\ pc[t] = "entries"
        /\ pc'[t] = "fetch"
        /\ fetching' = fetching + 1
        /\ \A u \in Threads : u # t => pc'[u] = pc[u] /\ job'[u] = job[u]
        /\ UNCHANGED <<listening, lock, catalog, diskVars, cacheVars, stale, ended>>
    BY <1>2 DEF FetchAll
  <2>2. /\ lock = t /\ lock # Free
        /\ listening
        /\ \A u \in Threads : u # t => pc[u] \notin Pipeline
    BY <2>1, OnlyHolder
  <2>3. Startup' /\ Mutex' /\ StatusExact'
    BY <2>1, <2>2 DEF Startup, Mutex, Exclusive, StatusExact
  <2>4. EnrichKeepsScan' /\ CatalogFresh'
    BY <2>1, <2>2 DEF EnrichKeepsScan, CatalogFresh, diskVars
  <2>5. EnrichedAt'
    BY <1>0, <2>1, <2>2 DEF EnrichedAt, Enriched, SettledEnriched, AtRest, cacheVars
  <2> QED
    BY <2>3, <2>4, <2>5
<1> QED
  BY <1>1, <1>2

\* One game: details are only added together with the mark that a game was
\* saved, so an unmarked FetchAll leaves the catalog as enriched as it was.
LEMMA FetchOneInv ==
    ASSUME IInv, TypeOK', NEW t \in Threads, FetchOne(t)
    PROVE  IInv'
<1> USE DEF IInv, TypeOK
<1>1. /\ pc[t] = "fetch"
      /\ UNCHANGED <<listening, lock, pc, catalog, roms, fetching, stale, ended>>
      /\ \A u \in Threads : u # t => job'[u] = job[u]
  BY DEF FetchOne
<1>2. /\ lock = t /\ lock # Free
      /\ listening
      /\ \A u \in Threads : u # t => pc[u] \notin Pipeline
  BY <1>1, OnlyHolder
<1>3. \/ details' = details /\ job'[t].saved = job[t].saved
      \/ job'[t].saved = TRUE
  BY DEF FetchOne, FetchCached, FetchFails, FetchNoMatch, FetchSaves, cacheVars, Jobs
<1>4. Startup' /\ Mutex' /\ StatusExact'
  BY <1>1, <1>2 DEF Startup, Mutex, Exclusive, StatusExact
<1>5. EnrichKeepsScan' /\ CatalogFresh'
  BY <1>1, <1>2 DEF EnrichKeepsScan, CatalogFresh
<1>6. EnrichedAt'
  BY <1>1, <1>2, <1>3 DEF EnrichedAt, Enriched, SettledEnriched, AtRest
<1> QED
  BY <1>4, <1>5, <1>6

\* The end of FetchAll: another iteration, or the end of the pipeline.
LEMMA FetchDoneInv ==
    ASSUME IInv, TypeOK', NEW t \in Threads, FetchDone(t)
    PROVE  IInv'
<1> USE DEF IInv, TypeOK
<1>0. pc[t] = "fetch" /\ fetching' = fetching - 1
  BY DEF FetchDone
<1>1. CASE ~Again(t)
  <2>1. ~job[t].saved => Enriched
    BY <1>0 DEF EnrichedAt
  <2>2. PICK how \in {"settled", "capped"} :
            Finish(t, how) /\ (how = "settled" => ~job[t].saved)
    <3>1. job[t].iter \in Nat
      <4>1. job[t] \in Jobs
        OBVIOUS
      <4> QED
        BY <4>1 DEF Jobs
    <3>2. job[t].saved => HitsCap(t)
      <4>1. maxRescanIterations \in Nat
        BY DEF maxRescanIterations
      <4>2. ASSUME NEW i \in Nat, NEW m \in Nat, ~(i + 1 < m)  PROVE i + 1 >= m
        BY <4>2
      <4> QED
        BY <1>1, <3>1, <4>1, <4>2 DEF Again, HitsCap
    <3> QED
      BY <1>1, <3>2 DEF FetchDone
  <2> QED
    BY <1>0, <2>1, <2>2, FinishInv DEF FetchDone
<1>2. CASE Again(t)
  <2>1. /\ pc'[t] = "scan"
        /\ \A u \in Threads : u # t => pc'[u] = pc[u] /\ job'[u] = job[u]
        /\ UNCHANGED <<listening, lock, catalog, diskVars, cacheVars, stale, ended>>
    BY <1>2 DEF FetchDone
  <2>2. /\ lock = t /\ lock # Free
        /\ listening
        /\ \A u \in Threads : u # t => pc[u] \notin Pipeline
    BY <1>0, OnlyHolder
  <2>3. Startup' /\ Mutex' /\ StatusExact'
    BY <1>0, <2>1, <2>2 DEF Startup, Mutex, Exclusive, StatusExact
  <2>4. EnrichKeepsScan' /\ CatalogFresh'
    BY <2>1, <2>2 DEF EnrichKeepsScan, CatalogFresh, diskVars
  <2>5. EnrichedAt'
    BY <2>1, <2>2 DEF EnrichedAt, Enriched, SettledEnriched, AtRest, cacheVars
  <2> QED
    BY <2>3, <2>4, <2>5
<1> QED
  BY <1>1, <1>2

\* What the user does to the files, and a refused rescan.
LEMMA UserInv ==
    ASSUME IInv, TypeOK', UserEditsRoms \/ UserEditsCovers \/ UNCHANGED vars
    PROVE  IInv'
<1> USE DEF IInv, TypeOK
<1>1. UNCHANGED <<listening, lock, pc, job, catalog, details, fetching, ended>>
  BY DEF UserEditsRoms, UserEditsCovers, vars, cacheVars
<1>2. Startup' /\ Mutex' /\ StatusExact' /\ EnrichKeepsScan'
  BY <1>1 DEF Startup, Mutex, Exclusive, StatusExact, EnrichKeepsScan
<1>3. CatalogFresh'
  BY <1>1 DEF CatalogFresh, UserEditsRoms, UserEditsCovers, vars, diskVars
<1>4. EnrichedAt'
  BY <1>1 DEF EnrichedAt, Enriched, SettledEnriched, AtRest
<1> QED
  BY <1>2, <1>3, <1>4

\* Every step keeps the invariant ...
LEMMA StepInv ==
    ASSUME IInv, [Next]_vars
    PROVE  IInv'
<1>0. TypeOK'
  BY TypeStep DEF IInv
<1>1. CASE StartScan \/ StartPublish
  BY <1>0, <1>1, StartInv
<1>2. CASE Lock
  BY <1>0, <1>2, AcquireInv
<1>3. ASSUME NEW t \in Requests, TriggerRescan(t) \/ TriggerRefused(t)
      PROVE  IInv'
  BY <1>0, <1>3, AcquireInv, UserInv DEF TriggerRefused
<1>4. ASSUME NEW t \in Threads, Step(t)
      PROVE  IInv'
  BY <1>0, <1>4, ScanInv, FetchAllInv, FetchOneInv, FetchDoneInv DEF Step
<1>5. CASE UserEditsRoms \/ UserEditsCovers \/ UNCHANGED vars
  BY <1>0, <1>5, UserInv
<1> QED
  BY <1>1, <1>2, <1>3, <1>4, <1>5 DEF Next, ServerNext

\* ... so it holds at every moment.
LEMMA Invariance == Spec => []IInv
BY InitInv, StepInv, PTL DEF Spec

-----------------------------------------------------------------------------
(* The theorems *)

\* At most one pipeline runs at a time, for any number of rescan requests.
THEOREM MutualExclusion == Spec => []Exclusive
<1>1. IInv => Exclusive
  BY DEF IInv, Mutex
<1> QED
  BY <1>1, Invariance, PTL

\* EnrichMetadata never overwrites the result of a scan it did not see.
THEOREM NoLostScan == Spec => []EnrichKeepsScan
<1>1. IInv => EnrichKeepsScan
  BY DEF IInv
<1> QED
  BY <1>1, Invariance, PTL

\* Clients see the ROM files of the latest scan from the first request on.
THEOREM FreshCatalog == Spec => []CatalogFresh
<1>1. IInv => CatalogFresh
  BY DEF IInv
<1> QED
  BY <1>1, Invariance, PTL

\* A pipeline that ends by itself has shown everything it saved.
THEOREM SavedIsShown == Spec => []SettledEnriched
<1>1. IInv => SettledEnriched
  BY DEF IInv, EnrichedAt
<1> QED
  BY <1>1, Invariance, PTL

\* The status flag is up only during a pipeline, and is never left up.
THEOREM HonestStatus == Spec => []StatusHonest
<1>1. IInv => StatusHonest
  BY DEF IInv, StatusExact, StatusHonest
<1> QED
  BY <1>1, Invariance, PTL
=============================================================================
