----------------------------- MODULE GameCache -----------------------------
(***************************************************************************)
(* What the files of the details cache may do while games are fetched, one *)
(* step per outcome of Cache.fetchOne.  Library drives its pipeline with   *)
(* these outcomes; Details, which models fetchOne call by call with        *)
(* readers and crashes in between, is shown to implement CacheSpec.        *)
(***************************************************************************)
EXTENDS Integers

CONSTANTS
    Games,  \* every ROM file that ever exists, numbered in catalog order
    KeyOf   \* KeyOf[g]: (console, clean name), shared by regional variants

ASSUME GameCacheAssumption ==
    /\ Games \subseteq Int
    /\ DOMAIN KeyOf = Games

Keys == {KeyOf[g] : g \in Games}

VARIABLES
    covers,    \* games with a file in the covers directory
    details,   \* keys with details in the cache
    notFound,  \* keys with a .notfound marker in the cache
    thumbs     \* keys with a cached cover_thumb.jpg

cacheVars == <<details, notFound, thumbs>>

CacheTypeOK ==
    /\ covers \subseteq Games
    /\ details \subseteq Keys
    /\ notFound \subseteq Keys
    /\ thumbs \subseteq Keys

\* What earlier processes and the user left.
CacheInit ==
    /\ covers \in SUBSET Games
    /\ details \in SUBSET Keys
    /\ notFound \in SUBSET (Keys \ details)
    /\ thumbs \in SUBSET Keys

Resolved(k) == k \in details \union notFound

\* ensureCoverThumbnail for game g, after the images of the step; the copy
\* may fail.
EnsureCover(g) ==
    \/ UNCHANGED covers
    \/ KeyOf[g] \in thumbs' /\ covers' = covers \union {g}

\* fetchOne finds the key resolved: only the game's cover may be missing.
FetchCached(g) ==
    /\ Resolved(KeyOf[g])
    /\ UNCHANGED cacheVars
    /\ EnsureCover(g)

\* fetchOne gives up for now: IGDB or the disk failed, possibly after some
\* images of the game were saved.
FetchFails(g) ==
    /\ ~Resolved(KeyOf[g])
    /\ thumbs' \in {thumbs, thumbs \union {KeyOf[g]}}
    /\ UNCHANGED <<covers, details, notFound>>

\* No match in IGDB: the key is tombstoned.
FetchNoMatch(g) ==
    /\ ~Resolved(KeyOf[g])
    /\ notFound' = notFound \union {KeyOf[g]}
    /\ UNCHANGED <<covers, details, thumbs>>

\* Details were found and saved, with or without the image of the cover.
FetchSaves(g) ==
    /\ ~Resolved(KeyOf[g])
    /\ details' = details \union {KeyOf[g]}
    /\ thumbs' \in {thumbs, thumbs \union {KeyOf[g]}}
    /\ EnsureCover(g)
    /\ UNCHANGED notFound

CacheNext ==
    \E g \in Games : FetchCached(g) \/ FetchFails(g) \/ FetchNoMatch(g) \/ FetchSaves(g)

CacheSpec == CacheInit /\ [][CacheNext]_<<covers, cacheVars>>
=============================================================================
