------------------------------- MODULE Details -------------------------------
(***************************************************************************)
(* internal/details: the cache of IGDB details, with its memory over its   *)
(* files.                                                                  *)
(*                                                                         *)
(* One goroutine at a time fetches (Library's Exclusive): Fetcher.  Any    *)
(* number of goroutines look games up meanwhile, the handlers of           *)
(* /api/game-details and the pipeline's own enrichment: Readers.  load     *)
(* takes the mutex for the map only, so a reader can be stopped between    *)
(* its miss, its read of details.json, its stat of .notfound and its store.*)
(* Every write is atomicfile.Write, one step or an error (AtomicStore).    *)
(***************************************************************************)
EXTENDS Integers

CONSTANTS
    Games, KeyOf,  \* as in GameCache
    Unfetchable,   \* games whose clean name is empty or unsafe in a path
    Readers,
    Fetcher,
    Corruptible,   \* keys whose details.json may not parse
    ReadErrors,    \* keys whose files may exist and still fail to be read
    Pictures,      \* images of a game: its cover, screenshots and artworks
    CoverPicture

ASSUME DetailsAssumption ==
    /\ Games \subseteq Int
    /\ DOMAIN KeyOf = Games
    /\ Unfetchable \subseteq Games
    /\ Fetcher \notin Readers
    /\ Corruptible \subseteq {KeyOf[g] : g \in Games}
    /\ ReadErrors \subseteq {KeyOf[g] : g \in Games}

Threads == Readers \union {Fetcher}
Keys    == {KeyOf[g] : g \in Games}

\* The keys whose files can always be read when they are there.
SoundKeys == Keys \ (Corruptible \union ReadErrors)

VARIABLES
    file,      \* details.json of each key
    notFound,  \* keys with a .notfound marker
    thumbs,    \* keys with a cover_thumb.jpg
    pics,      \* the other image files: pairs of key and picture
    refs,      \* the pictures that each details.json refers to
    covers,    \* games with a file in the covers directory
    mem,       \* Cache.mem: a nil entry is "missing", no entry is "none"
    left,      \* pictures that saveDetails has yet to download
    doc,       \* pictures that the details in its hands refer to locally
    at,        \* where each goroutine is
    game       \* the game each goroutine is looking at

disk == <<file, notFound, thumbs, covers, pics, refs>>
save == <<left, doc>>
vars == <<disk, mem, save, at, game>>

LoadPlaces  == {"mem", "read", "stat", "keep", "keepMissing"}
FetchPlaces == {"search", "query", "images", "write", "remember", "mark",
                "rememberMissing", "cover"}

TypeOK ==
    /\ file \in [Keys -> {"absent", "valid", "corrupt", "unreadable"}]
    /\ notFound \subseteq Keys
    /\ thumbs \subseteq Keys
    /\ covers \subseteq Games
    /\ pics \subseteq Keys \X Pictures
    /\ refs \in [Keys -> SUBSET Pictures]
    /\ left \subseteq Pictures
    /\ doc \subseteq Pictures
    /\ mem \in [Keys -> {"none", "found", "missing"}]
    /\ at \in [Threads -> {"idle"} \union LoadPlaces \union FetchPlaces]
    /\ \A r \in Readers : at[r] \notin FetchPlaces
    /\ game \in [Threads -> Games]

\* A process that has just started, on any files.
Init ==
    /\ file \in [Keys -> {"absent", "valid", "corrupt", "unreadable"}]
    /\ \A k \in Keys : file[k] = "corrupt" => k \in Corruptible
    /\ notFound \in SUBSET {k \in Keys : file[k] \in {"absent", "unreadable"}}
    /\ thumbs \in SUBSET Keys
    /\ covers \in SUBSET Games
    /\ pics \in SUBSET (Keys \X Pictures)
    /\ refs = [k \in Keys |-> IF file[k] = "valid" THEN {p \in Pictures : <<k, p>> \in pics}
                             ELSE {}]
    /\ left = {}
    /\ doc = {}
    /\ mem = [k \in Keys |-> "none"]
    /\ at = [t \in Threads |-> "idle"]
    /\ \E g \in Games : game = [t \in Threads |-> g]

Key(t) == KeyOf[game[t]]

Goto(t, from, to) ==
    /\ at[t] = from
    /\ at' = [at EXCEPT ![t] = to]
    /\ UNCHANGED game

-----------------------------------------------------------------------------
(* load, run by readers (Get) and by the fetcher (isCached) *)

\* What the two callers do next.
AfterHit(t)  == IF t = Fetcher THEN "cover" ELSE "idle"
AfterMiss(t) == IF t = Fetcher THEN "search" ELSE "idle"

\* A lookup of game g starts; FetchAll comes to every game of every scan's
\* catalog, in whatever order, and skips the unfetchable ones.
Begin(t, g) ==
    /\ at[t] = "idle"
    /\ t = Fetcher => g \notin Unfetchable
    /\ at' = [at EXCEPT ![t] = "mem"]
    /\ game' = [game EXCEPT ![t] = g]
    /\ UNCHANGED <<disk, mem, save>>

MemHit(t) ==
    /\ mem[Key(t)] # "none"
    /\ Goto(t, "mem", AfterHit(t))
    /\ UNCHANGED <<disk, mem, save>>

MemMiss(t) ==
    /\ mem[Key(t)] = "none"
    /\ Goto(t, "mem", "read")
    /\ UNCHANGED <<disk, mem, save>>

\* ReadFile and Unmarshal succeed.
ReadDetails(t) ==
    /\ file[Key(t)] = "valid"
    /\ Goto(t, "read", "keep")
    /\ UNCHANGED <<disk, mem, save>>

\* ReadFile succeeds and Unmarshal does not: unresolved, whatever .notfound
\* would say.
ReadCorrupt(t) ==
    /\ file[Key(t)] = "corrupt"
    /\ Goto(t, "read", AfterMiss(t))
    /\ UNCHANGED <<disk, mem, save>>

\* ReadFile fails, for whatever reason: as if there were no details.json.
ReadFails(t) ==
    /\ file[Key(t)] \in {"absent", "unreadable"} \/ Key(t) \in ReadErrors
    /\ Goto(t, "read", "stat")
    /\ UNCHANGED <<disk, mem, save>>

StatFound(t) ==
    /\ Key(t) \in notFound
    /\ Goto(t, "stat", "keepMissing")
    /\ UNCHANGED <<disk, mem, save>>

\* Mutant of StatFails: the marker is not looked at.
StatIgnored(t) ==
    /\ Goto(t, "stat", AfterMiss(t))
    /\ UNCHANGED <<disk, mem, save>>

StatFails(t) ==
    /\ Key(t) \notin notFound \/ Key(t) \in ReadErrors
    /\ Goto(t, "stat", AfterMiss(t))
    /\ UNCHANGED <<disk, mem, save>>

\* The result from disk is memoized and returned.
Keep(t) ==
    /\ \/ Goto(t, "keep", AfterHit(t)) /\ mem' = [mem EXCEPT ![Key(t)] = "found"]
       \/ Goto(t, "keepMissing", AfterHit(t)) /\ mem' = [mem EXCEPT ![Key(t)] = "missing"]
    /\ UNCHANGED <<disk, save>>

Load(t) ==
    \/ \E g \in Games : Begin(t, g)
    \/ MemHit(t) \/ MemMiss(t) \/ ReadDetails(t) \/ ReadCorrupt(t)
    \/ ReadFails(t) \/ StatFound(t) \/ StatFails(t) \/ Keep(t)

-----------------------------------------------------------------------------
(* fetchOne, after isCached said no *)

\* A call that reaches IGDB or the disk fails: fetchOne gives up, and the
\* game is retried after the next scan.
GiveUp ==
    /\ at[Fetcher] \in {"search", "query", "write", "mark"}
    /\ Goto(Fetcher, at[Fetcher], "idle")
    /\ doc' = {}
    /\ UNCHANGED <<disk, mem, left>>

\* search: some variant of the name matched, or none did.
Search ==
    /\ Goto(Fetcher, "search", "query") \/ Goto(Fetcher, "search", "mark")
    /\ UNCHANGED <<disk, mem, save>>

\* FetchDetailsByID: details with any images, or nil for an id that has gone.
Query ==
    /\ \/ Goto(Fetcher, "query", "images") /\ left' \in SUBSET Pictures
       \/ Goto(Fetcher, "query", "mark") /\ UNCHANGED left
    /\ UNCHANGED <<disk, mem, doc>>

\* Mutant of Download: the reference stays when the download fails.
DownloadKept(p) ==
    /\ at[Fetcher] = "images"
    /\ left' = left \ {p}
    /\ doc' = doc \union {p}
    /\ pics' \in {pics, pics \union {<<Key(Fetcher), p>>}}
    /\ thumbs' \in {thumbs} \union (IF p = CoverPicture THEN {thumbs \union {Key(Fetcher)}} ELSE {})
    /\ UNCHANGED <<file, notFound, covers, refs, mem, at, game>>

\* downloadImage: the file is written and the reference rewritten to it, or
\* dropped; the cover's thumbnail follows the cover, or fails silently.
Download(p) ==
    /\ at[Fetcher] = "images"
    /\ left' = left \ {p}
    /\ \/ UNCHANGED <<doc, pics, thumbs>>
       \/ /\ doc' = doc \union {p}
          /\ pics' = pics \union {<<Key(Fetcher), p>>}
          /\ \/ UNCHANGED thumbs
             \/ p = CoverPicture /\ thumbs' = thumbs \union {Key(Fetcher)}
    /\ UNCHANGED <<file, notFound, covers, refs, mem, at, game>>

\* Every image was tried; none of them stops the rest.
ImagesDone ==
    /\ left = {}
    /\ Goto(Fetcher, "images", "write")
    /\ UNCHANGED <<disk, mem, save>>

\* Mutant of WriteDetails: memory is told of the save before the file is.
WriteAfterStore ==
    /\ Goto(Fetcher, "write", "remember")
    /\ mem' = [mem EXCEPT ![Key(Fetcher)] = "found"]
    /\ file' \in {file, [file EXCEPT ![Key(Fetcher)] = "valid"]}
    /\ UNCHANGED <<notFound, thumbs, covers, pics, refs, save>>

\* details.json replaces whatever was there ...
WriteDetails ==
    /\ Goto(Fetcher, "write", "remember")
    /\ file' = [file EXCEPT ![Key(Fetcher)] = "valid"]
    /\ refs' = [refs EXCEPT ![Key(Fetcher)] = doc]
    /\ doc' = {}
    /\ UNCHANGED <<notFound, thumbs, covers, pics, mem, left>>

\* ... and then memory.
StoreDetails ==
    /\ Goto(Fetcher, "remember", "cover")
    /\ mem' = [mem EXCEPT ![Key(Fetcher)] = "found"]
    /\ UNCHANGED <<disk, save>>

\* Mutant of WriteNotFound: a failed write of the marker is only logged, and
\* the game is memoized as missing all the same.
WriteNotFoundUnchecked ==
    /\ Goto(Fetcher, "mark", "rememberMissing")
    /\ notFound' \in {notFound, notFound \union {Key(Fetcher)}}
    /\ UNCHANGED <<file, thumbs, covers, pics, refs, mem, save>>

\* writeNotFound: the marker ...
WriteNotFound ==
    /\ Goto(Fetcher, "mark", "rememberMissing")
    /\ notFound' = notFound \union {Key(Fetcher)}
    /\ UNCHANGED <<file, thumbs, covers, pics, refs, mem, save>>

\* ... and then memory.
StoreMissing ==
    /\ Goto(Fetcher, "rememberMissing", "idle")
    /\ mem' = [mem EXCEPT ![Key(Fetcher)] = "missing"]
    /\ UNCHANGED <<disk, save>>

\* ensureCoverThumbnail: nothing if the cover is there, if no image was
\* cached or if the copy fails.
Cover ==
    /\ Goto(Fetcher, "cover", "idle")
    /\ \/ UNCHANGED covers
       \/ Key(Fetcher) \in thumbs /\ covers' = covers \union {game[Fetcher]}
    /\ UNCHANGED <<file, notFound, thumbs, pics, refs, mem, save>>

Images == (\E p \in left : Download(p)) \/ ImagesDone

Fetch ==
    \/ GiveUp \/ Search \/ Query \/ Images \/ WriteDetails \/ StoreDetails
    \/ WriteNotFound \/ StoreMissing \/ Cover

-----------------------------------------------------------------------------
\* The process dies and is started again: memory is gone, the files stay.
Restart ==
    /\ \/ \E k \in Keys : mem[k] # "none"
       \/ \E t \in Threads : at[t] # "idle"
    /\ mem' = [k \in Keys |-> "none"]
    /\ at' = [t \in Threads |-> "idle"]
    /\ left' = {} /\ doc' = {}
    /\ UNCHANGED <<disk, game>>

Next == (\E t \in Threads : Load(t)) \/ Fetch \/ Restart

Spec == Init /\ [][Next]_vars

-----------------------------------------------------------------------------
(* Properties *)

\* What the files alone say of a key to a process that has just started.
OnDisk(k) ==
    IF file[k] = "valid" THEN "found"
    ELSE IF k \in notFound /\ file[k] # "corrupt" THEN "missing"
    ELSE "none"

\* What the cache says of a key now.
Known(k) == IF mem[k] # "none" THEN mem[k] ELSE OnDisk(k)

\* Memory never claims what the files could not tell a restarted server:
\* both writers store to memory only after their write succeeded, and a
\* reader's late store cannot outlive the file it read.
MemBacked ==
    \A k \in Keys :
        /\ mem[k] = "found"   => file[k] = "valid"
        /\ mem[k] = "missing" => k \in notFound

\* IGDB is asked only about games that neither memory nor the files know,
\* at every moment of the fetch, whatever readers store meanwhile and whatever
\* goes wrong with the files of other games.
SearchOnlyUnknown ==
    /\ at[Fetcher] \in {"search", "query", "images", "write", "mark"}
    /\ Key(Fetcher) \in SoundKeys
    => Known(Key(Fetcher)) = "none"

\* A resolved game stays resolved, the same way, across every interleaving
\* and every restart: details never turn into 404 nor back.
ResolutionStable ==
    [][\A k \in SoundKeys : Known(k) # "none" => Known(k)' = Known(k)]_vars

\* details.json refers to images that are there, whole: saveDetails rewrites
\* a reference only to a file it wrote, before it writes details.json, and
\* neither a failed download nor a restart in between leaves a reference behind.
NoDanglingImage ==
    \A k \in Keys : file[k] = "valid" => \A p \in refs[k] : <<k, p>> \in pics

\* Every behaviour of the files of sound keys, with readers, restarts and the
\* faults of other keys anywhere, is one of GameCache.
SoundGames == {g \in Games : KeyOf[g] \in SoundKeys}
Outcomes == INSTANCE GameCache WITH
    Games    <- SoundGames,
    KeyOf    <- [g \in SoundGames |-> KeyOf[g]],
    covers   <- covers \intersect SoundGames,
    details  <- {k \in SoundKeys : file[k] = "valid"},
    notFound <- notFound \intersect SoundKeys,
    thumbs   <- thumbs \intersect SoundKeys
OutcomesSpec == Outcomes!CacheSpec
=============================================================================
