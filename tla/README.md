# Freeplay in TLA+

Freeplay is a self-hosted server for retro games: it scans directories of ROM
files, fetches descriptions and covers from IGDB in the background, serves a
library to browsers, runs the games there with EmulatorJS, and keeps their
saves. This directory specifies its stateful core in TLA+. TLC checks small
instances of every specification and TLAPS proves the main results for every
value of the constants.

## The system

| Part | State | Operations | Talks to |
|------|-------|------------|----------|
| `internal/atomicfile` | files and `.tmp-*` files | `Write` | called by saves and details |
| `internal/library` | `mu` | `Start`, `RunPipeline`, `TriggerRescan` | scanner, details cache |
| `internal/scanner` | the catalog (an atomic pointer), its mutex | `ScanBlocking`, `EnrichMetadata`, `HasGameSlug`, `Catalog` | ROM and cover directories |
| `internal/details` | `mem` under `mu`, `fetching`, the cache directory, the covers | `Get`, `FetchAll` | IGDB fetcher, atomicfile |
| `internal/igdb` | OAuth token and expiry | `SearchGame`, `FetchDetailsByID`, name variants | IGDB over HTTP |
| `internal/saves` and the save handlers | save files | `GET` and `POST /api/saves/...` | catalog gate, atomicfile |
| `internal/server` | a pool of `gzip.Writer`s, the headers and body of each response | routes, caching headers, gzip, recovery, logging | everything above |
| `internal/config`, `internal/datadir` | none | load, paths | files |
| `frontend/play.js`, `postSave.js`, `sram.js`, `loadState.js` | listeners, requests in flight | restore, periodic save, save states | save endpoints, EmulatorJS |
| `frontend/app.js` | catalog shown, poll timer, button | load, rescan, poll | `/api/games`, `/api/rescan`, `/api/status` |
| `frontend/masterVolume.js`, `input.js` | gain nodes; animation loop | volume; gamepad events | Web Audio, Gamepad API |

What is hard here:

* Pipelines run on goroutines of their own next to the handlers. The catalog is
  replaced by whole values, but an enrichment loads it and stores it later, so
  it is the *library's* mutex that keeps scans from being lost.
* The details cache releases its mutex around file accesses, so a lookup can
  store what it read long after; the fetcher writes files first and memory
  second, and the process may die in between.
* Everything that survives a restart goes through `atomicfile.Write`.
* The OAuth token is cached for every caller, may be refused at any time, and
  is cleared by whoever is refused; a game that IGDB does not know is marked on
  disk for good, so a failed query must never look like an answer.
* A response passes four wrappers that hold state of their own, and the handler
  may panic between any two of its calls.
* The browser may only post a save back if it knows what the server had. Its
  requests are lost, late, reordered, and answered by a gate that depends on
  the last scan.
* The pages are callbacks, timers and animation frames: the Rescan button has a
  poll that may outlive the click, the volume wrapper waits for an emulator that
  comes up in parts, and gamepads come and go around the frame that ends the
  loop.

`PROJECT.json` lists every hazard with its line and the properties about it.

## Modules

### AtomicStore, AtomicFile: one path under concurrent `Write`s

`AtomicStore` is the promise: a path holds nothing or everything one call
wrote; a call takes effect before it answers ok, and one that answers with an
error never does. `AtomicFile` is the code, one action per system call
(`CreateTemp`, `Fill`, `Sync`, `Close`, `Rename`, then `Return`; `Abort` is the
deferred cleanup), with a file system that keeps what was flushed. The entry of
the directory and the bytes of a file reach stable storage separately, because
the code flushes the file only; `Writeback` may happen at any time, and
`PowerLoss` brings back the directory of the last writeback.

The abstract store allows a crash to bring back older content, which is what
the code really gives; that an acknowledged write is *durable*, as the comment
at the fsync says, is refuted by a run of its own.

### GameCache, Library: the pipeline

`GameCache` says what fetching a game may do to the files of the cache, one
action per outcome of `fetchOne`. `Library` extends it with `internal/library`
and `internal/scanner`: `pc[t]` is where goroutine `t` is in
`runPipelineLocked`, `job[t]` its locals (iteration, catalog under
construction, games left, whether something was saved). The catalog is read and
stored in separate steps (`Scan`/`Publish`, `EnrichLoad`/`EnrichStore`), and
handlers may look at it in any state. `Boot` runs the startup pipeline, each of
`Requests` the pipeline of an accepted `POST /api/rescan`. A ROM directory that
cannot be read loses its games (`ReadDirs`). The user edits ROMs and covers at
any time (`UserEditsRoms`, `UserEditsCovers`).

`KeyOf` maps a ROM file to its cache key: regional variants of a game share
one, which is how a fetch for one file resolves another.

### Details: the cache, call by call

`load` as it is: memory under the mutex, `details.json`, `.notfound`, the store
to memory, each a step that other goroutines can interleave with. `Fetcher` is
the one goroutine that runs `FetchAll` (`Library` shows there is one);
`Readers` are the handlers and the enrichment. `fetchOne` is the sequence
search, query, images, write, remember, cover; `GiveUp` is every error path that
leaves the game for a later scan. The images are downloaded one by one
(`Download`): `left` are those still to come, `doc` those that the details in
memory already refer to by a local name, `refs[k]` those that `details.json`
refers to. `Restart` kills the process at any point. The files of some keys may
go wrong: hold JSON that does not parse (`Corruptible`), or fail to be read
although they are there (`ReadErrors`). The other keys are `SoundKeys`, and what
is promised about them must hold next to the broken ones. Nobody deletes files
of the cache while the server runs.

`OutcomesSpec` shows that this implements `GameCache` over the sound keys, with
`details = {k : file[k] = "valid"}`: the outcomes that drive `Library`'s
pipeline are those the call-by-call model has.

### Names, IgdbApi, IgdbSearch: what happens between the cache and IGDB

`Names` is `name.go` over words and pieces of punctuation: `CleanName`, and
`NameVariants` in its order and without repetitions. `IgdbApi` is
`Fetcher.apiRequest`: the token under `Fetcher.mu`, which is held while a new one
is asked for; the request; the one retry after a 401, which first clears the
cached token, whichever that is by now. Tokens are numbered in the order they
are granted, `accepted` are those IGDB takes; it may revoke one (`Revoke`) or
refuse a good one, a token may be granted already expired or not at all.
`refusedAt` is history: how many tokens there were at the refusal.

`IgdbSearch` composes the two with `Cache.search` and the rest of `fetchOne`'s
questions: the plan of queries (variants with the platform constraint, then
without), `Match` (the choice among the titles IGDB lists, by how they compare
with the name), and the request for the details. `asked`, `answers` and
`wanted` are history: `wanted` is the set of queries that `fetchOne` owes a
name, every variant without a constraint and, where the console has platform
IDs, with it.

### HttpResponse: a response through its wrappers

A request is served by a *script*: the calls that the inner middleware and the
handler make on the `http.ResponseWriter`, route by route (`routes`), one step
per call. `Panic` may cut any script off. `LogStatus`/`LogWrite` are
`loggingResponseWriter`, `GzipStatus` and `Write` are `gzipResponseWriter` with
a `gzip.Writer` from the pool; the deferred calls then run in their order:
`CloseWriter`, `PutWriter`, `Recover`, `Log`. The fields `line`, `sent`, `lines`
and `body` are what reached the connection. What `net/http` does
(`http.Error`, the file servers, the superfluous second `WriteHeader`) is
external. Of its failures, the 404 and 416 go through `serveError`, which
clears the caching headers; the 412 of a failed `If-Match` or
`If-Unmodified-Since` is a bare status.

### RescanUI: the Rescan button over the pipeline

`RescanUI` extends `Library` with the page: its `POST /api/rescan` is a
`TriggerRescan` of the goroutine `Page`, its polls read `fetching`, other clients
ask for rescans of their own, requests and answers are lost (`Lost`), and the
page may be reloaded. `flow` is the one request or answer of the page's chain of
promises, `armed` a timeout that is set, `timer` that `statusPollTimer` is not
null (the code does not clear it when the timeout fires), `awaited` that the
click's `finally` clause is still to run.

### MasterVolume, SaveStates, Gamepad, and PageControls over them

Three parts of the frontend that share no state. `MasterVolume`: the master
gains of the audio contexts, the wrapper around the emulator's `setVolume`, the
poll that installs it, an emulator that comes up in parts, and OpenAL contexts
that come and go. `SaveStates`: presses of "save state" and "load state",
answered in any order or not at all, against the state file; a load pressed
before the emulator has a `gameManager` ends at once. `Gamepad`: the
animation-frame loop with connections, disconnections and repeats. A behaviour
of `PageControls` is one of one of them with the others at rest, so that one run
checks all three without multiplying their states.

### Saves: play pages, save handlers and the SRAM file

A page opens, its game starts (`OnGameStart`, a request per start), the request
passes the catalog gate (`GateGet`) and the file is read (`ServeGet`). A 2xx
restores and registers the periodic save, a 404 registers it, everything else
refuses. `Tick` posts the emulator's save memory without waiting; a post passes
the gate (`GatePost`) and reaches the disk (`Put`), in any order, or is lost.
`Put` is one step because of `AtomicStore`. A save is a function from sessions
to how far each got in it, so that losing a session's progress is visible.
Two variables are history. `base[p]` is the file at the moment the server gave
the answer that page `p` acted on. `kept` is the file when a page was last
opened with no other open and no post on its way; opening itself waits for
nothing, so pages overlap, and a closed page's last post may land long after the
next page has read the save.

`UnlistsPlayed` says whether a rescan may lose a game that is being played (its
ROM directory could not be read).

The `MC` modules give the instances their games, keys, names and answers.

## Runs

| Run | Bounds | What it shows |
|-----|--------|---------------|
| `atomic_file` | 3 calls | torn content, leftovers, late effects never happen; implements `AtomicStore` |
| `atomic_file_durability` | 1 call | **violated**: an acknowledged write is lost with the power |
| `library` | first start, 3 games with keys of their own, boot and 1 client that keeps asking | one pipeline at a time, every saved game shown once the pipelines settle, honest status; pipelines end, startup is not starved |
| `library_follow_up` | 2 games, 1 client | **violated**: a restored cover waits for another rescan |
| `details` | 2 variants of one key (one unfetchable), 1 broken key, 1 reader, 1 picture | memory is backed by files, no needless search, stable resolutions, no dangling image, implements `GameCache` |
| `igdb_search` | 1 caller, 2 names, 4 answers, 2 tokens | a verdict of "no match" needs exactly the wanted queries, all answered; the match is the best of the first query that has one; queries in order; retries use newer tokens; every search ends |
| `http_response` | 2 connections, one for any route and one for the health check; 2 writers | writers have one owner, failures but the 412 are not cached, the log tells what was sent, bodies decode |
| `rescan_ui` | 1 game, the page and 1 other client, 2 clicks, user edits | no scan lost, catalog fresh; one chain of requests; a poll that saw work and then none proves the page's scan; the button comes back |
| `page_controls` | 2 contexts, 3 volumes, 2 tries; 3 saves, 1 load; 2 pads, 2 actions, delay 3 | the volume is applied once and by the right side; a confirmed state is kept; one loop, which counts the connected gamepads; saves answered, and loads whose answer arrives or fails; held actions repeat |
| `load_silent` | 1 load | **violated**: a body that breaks off leaves the load without a message |
| `saves` | 2 pages in turn or overlapping, one with 2 starts, 2 posts each | restore before save; what was there when all was quiet is kept |
| `saves_unlisted` | 1 page, rescans that lose the game | **violated**: a fresh save overwrites an existing one |

Why these bounds are enough to be interesting.

* Three calls of `Write` let one be durable, one renamed and one in flight when
  the power fails.
* Three games, none saved at the start, let every iteration up to the cap save
  one, so the last save may fall on the iteration after which the loop may not
  run again. One client that asks again and again is the smallest instance in
  which a rescan can be refused, run, and starve the startup pipeline. The run
  leaves the user out (`ServerNext`) to spend its states on liveness and the
  cap; what edits of the files can disturb is checked in `rescan_ui`, and the
  safety properties of both are proved for `Spec`, with any files at the start,
  any games, edits and any number of clients.
* Two variants of one key let a lookup of one file meet the fetch for the other;
  the broken key next to them shows that its faults stay its own. `MCInit`
  starts without images. One picture is enough for a download to fail, to be
  repeated and to be cut off by a restart; the order of several is in the proof.
* Two tokens let the first be refused and the second be refused too; after that
  the endpoint grants none. One name has one variant, the other
  four (`"Sim City - Classic"`, with a colon, without spaces, without the
  subtitle), and the answers hold no title, an unacceptable one, and equal ones
  behind worse ones. Several callers share the token in the proof.
* Two writers serve two connections; connections are reused, so a writer comes
  back from the pool to either. `Probes` restricts the second connection to the
  shortest script, which still takes, uses and returns a writer.
* Two clicks let a timer set for the first meet the second; the other client
  makes the status busy or calm for its own reasons.
* `MaxTries` 2 instead of 100 lets the poll give up before, between and after
  the emulator's parts. Three saves can overlap in every order of sending,
  storing and answering. `REPEAT_DELAY` 3 distinguishes the first frame, one in
  between and the one that repeats.
* Two posts of a page can overtake each other, and land before or after the
  next page reads the save; two pages can overlap or follow each other; a second
  start of the game restores once more between posts.

The bounds on starts, posts, progress, saves, loads, clicks, tries and tokens
are the only counters, with `maxRescanIterations`, which is the code's own.

Deadlock is checked in every run but `page_controls`, where the player may be
done with the bounded number of saves and loads.

### Fairness

* `Library`: goroutines that can run are scheduled (weak fairness of each step
  of a pipeline), which covers the HTTP calls inside a fetch because both
  clients have timeouts. The startup goroutine waits in `sync.Mutex.Lock` while
  rescans use `TryLock`; a mutex in starvation mode refuses `TryLock` and is
  handed to the waiter, hence strong fairness of `Lock`.
* `IgdbSearch`: the client's timeout of 10 s ends every exchange (weak fairness
  of the answers and of the caller), and no waiter of `Fetcher.mu` starves
  (strong fairness of the steps that lock it).
* `RescanUI` adds that every request of the page is answered or fails, and that
  the browser runs callbacks and timers. Clicks are free, and `ButtonReturns`
  assumes that other clients stop asking at some time.
* `PageControls`: requests are answered or fail, callbacks and animation frames
  run; a hidden tab gets no frames, so `HeldRepeats` is about a page in view.
  Nobody has to press anything.

### Disagreements between the documents and the code

The four runs that expect a violation each state what a comment or a document
says; `PROJECT.json` quotes the line and the code that does otherwise.

1. `atomicfile.go`: "guarantees durability across power loss". The directory is
   never flushed.
2. `ARCHITECTURE.md`: "a follow-up scan picks up the new images". There is no
   follow-up scan if only covers changed.
3. `play.js`: a 404 means "no save on disk". The catalog gate answers 404 too.
4. `loadState_test.js`: "every non-happy branch surfaces a user message". The
   await of the body in `loadState.js` has no handler (`LoadsTold`).

Met while modelling, and not given a run of their own:

* `library.go` says that the loop ends in one or two iterations; transient
  failures make three, and saves of the third wait for the next rescan
  (`SettledEnriched` excepts the pipeline that the cap cut off).
* A `details.json` that does not parse hides the marker next to it, so the game
  is searched again at every start although ADR 001 calls a marked game "not
  re-searched". The model has it: such keys are not `SoundKeys`.
* A poll that finds no work at once ends the polling for good, also when
  `FetchAll` has not started yet; the page then shows the catalog of that moment.
  `PollProvesScan` is therefore about a poll that found work before.
* Two saves of the state that overlap are both confirmed, and either may be the
  one on the disk. Saves also overlap when the answer to the first was lost
  while its POST is still on its way. `ConfirmedIsKept` therefore assumes
  `alone`: each save was sent when no earlier POST was left in the network or at
  the server, which a player cannot see.
* A load pressed before the emulator has a `gameManager` is silent
  (`play.js:88`); `PressesAnswered` is about the loads that were sent.
* A page may read the save before the last post of a closed one has landed, and
  then overwrites it with its own. `ProgressKept` says what is safe all the
  same: everything that was there when all was quiet. Pages that overlap
  endanger each other's progress in the same way.
* The comment at `cacheWithETag` says that error responses "do not inherit the
  long cache". A 412 does: `net/http` sends it with whatever headers are set.
  `FailureNotCached` excepts it.
* While OpenAL takes over from the masters the volume is right again only at the
  next `setVolume`: `SliderHeard` excepts that time (`switched`).
* After a panic in the middle of a compressed body the deferred `Close` finishes
  the stream, so the client receives a part that looks whole (`BodyDecodes` asks
  for a whole stream, not for a whole content).

## Proofs

All results hold for every value of the constants under the assumptions named
in the modules.

* `AtomicFileProofs`. The inductive invariant says that a flushed file is
  complete, that every call past `Sync` is flushed, and that whatever was
  renamed is flushed; so the target is whole whichever directory entry a crash
  brings back. From it: `TypeCorrect`, `NeverTorn`, `FailedWritesInvisible`,
  `TemporariesRemoved`, and `ImplementsStore`, the refinement of `AtomicStore`.
* `LibraryProofs`. The invariant adds to the properties who is before the
  listener (`Startup`), that a goroutine inside the pipeline holds the mutex
  (`Mutex`), the exact value of the status counter, and, for every place of the
  pipeline, which details the catalog already shows (`EnrichedAt`). From it the
  safety properties of the run.
* `DetailsProofs`. `Backed`: a goroutine about to store to memory has seen, or
  written, the file that backs it (`Pending`). This gives `MemoryIsBacked`
  whatever fails. `DocInv`: whatever the details in memory, and those on disk,
  refer to is an image that was written; it gives `ImagesAreThere`. Over the
  sound keys (`SInv`), details and marker exclude each other and what memory
  says is what the files say, and `NoNeedlessSearch`, `ResolvedStays` and
  `ImplementsOutcomes` follow, next to keys whose files do anything.
* `IgdbProofs`. The invariant bounds what each call has sent and says that a
  caller between the clearing of the token and its second request meets no token
  from before its refusal: tokens are granted under the mutex by the one caller
  that holds it, and numbered. It gives `RetriesAreFresh` and `TokensAreShared`.
  For the search (`SearchInv`): `asked` followed by `plan` is at every moment the
  whole plan, constrained queries first, none twice, each also without the
  constraint (`PlanIsOrdered`, which rests on `NameVariants` listing no name
  twice); every query but the one under way has its answer (`Progress`); and no
  answer but the last has an acceptable title, `Match` having taken the best of
  that one (`Found`, with `MatchIsBest`). `NoMatchIsKnown`, `BestMatchWins` and
  `ConstrainedFirst` follow, for any number of callers, any names, and any
  answers whose titles are graded as `SearchAssumption` says. That `asked` is all
  of `wanted` at a verdict of no match follows because the plan is empty then.
* `SavesProofs`. The catalog lists the game of an open page, so a 404 that
  reaches an open page was given when there was no file (`Truthful`); with that
  `RestoreBeforeSave` is inductive. The theorem assumes that rescans keep the
  games being played; `saves_unlisted` shows the assumption is needed.
  `QuietIsKept`, under the same assumption and for any number of pages open at
  once: the file, every answer and every emulator's memory of an open page, and
  every post on its way cover what the file held when all was quiet (`KeptInv`);
  a page that finds all quiet has not asked, restored or posted anything yet.
  `PastIsKept`: all that a page may post has the past progress of the file
  (`PastInv`), so `PastKept`, which `saves_unlisted` refutes, fails only by a
  rescan that loses a game being played.
* `HttpResponseProofs`. A response is described by what is left of its script.
  `ScriptsComplete` shows of every script of every route that it answers, sets
  no status after it has answered, and clears caching headers before it fails
  with anything but the 412; a tail of a script inherits this (`Script`). `Wire` relates what reached the
  connection to what `loggingResponseWriter` knows and to the headers; `Zips`
  relates the body to the stream of the Writer, which belongs to this response
  because of `WritersExclusive`. The steps of another response touch neither, so
  a step is proved for the response that takes it. From `ResponseInv`:
  `PoolIsExclusive`, `FailuresAreNotCached`, `LogIsTrue`, `BodiesDecode`, with a
  panic possible between any two calls.
* `RescanProofs`. `RescanImplementsLibrary`: a step of the page is a step of
  `Library` or leaves the server alone, so everything `LibraryProofs` proves
  holds under the page (`RescanKeepsScan`). `ChainInv` says where the timer, the
  awaited `finally` and the one request can be, which gives `ButtonAndChain`. For
  `CalmAfterBusy` the invariant follows the goroutine of the page's rescan: while
  a rescan accepted from the page is unpublished, that goroutine is before its
  first publication and holds the mutex, so whoever sees work and then none has
  seen it go past.
* `PageControlsProofs`. The masters are neutral until the wrapper is there and
  while OpenAL's sources are scaled, and follow the slider otherwise
  (`VolumeInv`); the file never holds an older state than the one confirmed last
  as long as every save was sent `alone` (`SaveStatesInv`); the loop's counter is
  the number of connected gamepads, and a frame is requested exactly when `rafId`
  says so (`GamepadInv`). Hence
  `NeverTwice`, `SliderIsHeard`, `ConfirmedStays`, `OneLoopOnly`.

With these every safety invariant and every action property of the passing runs
is a theorem. Only model-checked, and out of the prover's reach: liveness, which
needs fairness and `ENABLED` (`PipelineEnds`, `StartupPipelineRuns`,
`SearchEnds`, `ButtonReturns`, `PressesAnswered`, `HeldRepeats`). The violations
are TLC's.

## Not modelled

`PROJECT.json` lists each part with the reason. In short:

* Vendored code, packaging, rendering, paths, configuration and debug profiling
  hold no concurrent state.
* `internal/igdb`: the mapping of IGDB's records to `GameDetails` and the checks
  of image URLs are pure.
* `internal/scanner`: years, manuals, BIOS flags and the slug index. Two ROM
  files that differ in their extension only share a slug, and so a save;
  `Saves` is about one slug.
* `internal/server`: the 404 that `http.StripPrefix` gives to an escaped path
  passes `cacheWithETag` with the long policy; no page forms such a path. A range
  of a compressible file is compressed after it was cut, which is only visible
  in `Content-Range`.
* `frontend/app.js`: rendering and filters, and which of two answers to
  `loadCatalog` is shown last: nothing orders them. `play.js`: the configuration
  of the emulator, and the HEAD probe behind `EJS_loadStateURL`.
* A cover that a person copies while `ensureCoverThumbnail` is between its check
  and its write is overwritten; check and write are one step here.

## Plan

1. `Saves`: what remains of the progress of sessions that overlap, beyond
   `ProgressKept`, which is about what was there before them.
2. `Details`: the check and the write of `ensureCoverThumbnail` as two steps, so
   that a cover which a person copies in between is in the model, and
   `DetailsProofs` over it.
3. `RescanUI`: which of two answers to `loadCatalog` is shown, and `RescanProofs`
   with it.
