---------------------------- MODULE DetailsProofs ----------------------------
(***************************************************************************)
(* Proofs about Details, for any games, keys and readers.                  *)
(*                                                                         *)
(* MemBacked holds whatever fails: a goroutine that is about to store to   *)
(* memory has seen, or written, the file that backs it (Pending), and no   *)
(* step takes a file away.                                                 *)
(*                                                                         *)
(* NoDanglingImage holds whatever fails too: the references in the         *)
(* fetcher's hands are to files it wrote (DocInv).                         *)
(*                                                                         *)
(* The other results are about SoundKeys, whose reads do not fail by       *)
(* themselves and whose files parse, next to keys of which nothing is      *)
(* assumed: the details and the marker of a sound key exclude each other,  *)
(* the fetcher searches only for sound keys nothing knows, and what is     *)
(* known stays known (SInv).                                               *)
(***************************************************************************)
EXTENDS Details, TLAPS

USE DetailsAssumption DEF Threads, LoadPlaces, FetchPlaces

\* What a goroutine holds between a file and the store to memory.
Pending ==
    \A t \in Threads :
        /\ at[t] \in {"keep", "remember"} => file[Key(t)] = "valid"
        /\ at[t] \in {"keepMissing", "rememberMissing"} => Key(t) \in notFound

Backed == TypeOK /\ MemBacked /\ Pending

\* The game a goroutine looks at has a key.
LEMMA KeyType == ASSUME TypeOK, NEW t \in Threads PROVE Key(t) \in Keys
BY DEF TypeOK, Key, Keys

LEMMA TypeInit == Init => TypeOK
<1> SUFFICES ASSUME Init PROVE TypeOK
  OBVIOUS
<1>1. file \in [Keys -> {"absent", "valid", "corrupt", "unreadable"}]
  BY DEF Init
<1>2. /\ notFound \subseteq Keys /\ thumbs \subseteq Keys /\ covers \subseteq Games
      /\ pics \subseteq Keys \X Pictures /\ refs \in [Keys -> SUBSET Pictures]
      /\ left \subseteq Pictures /\ doc \subseteq Pictures
  BY DEF Init
<1>3. /\ mem \in [Keys -> {"none", "found", "missing"}]
      /\ at \in [Threads -> {"idle"} \union LoadPlaces \union FetchPlaces]
      /\ \A r \in Readers : at[r] \notin FetchPlaces
      /\ game \in [Threads -> Games]
  BY DEF Init
<1> QED
  BY <1>1, <1>2, <1>3 DEF TypeOK

\* A goroutine moves within the places of its kind.
AtType(f) ==
    /\ f \in [Threads -> {"idle"} \union LoadPlaces \union FetchPlaces]
    /\ \A r \in Readers : f[r] \notin FetchPlaces

LEMMA Move ==
    ASSUME AtType(at), NEW t \in Threads,
           NEW p \in {"idle"} \union LoadPlaces \union FetchPlaces,
           t \in Readers => p \notin FetchPlaces,
           at' = [at EXCEPT ![t] = p]
    PROVE  AtType(at')
BY DEF AtType

\* Every step of load ends at such a place.
LEMMA LoadMove ==
    ASSUME AtType(at), NEW t \in Threads, Load(t)
    PROVE  AtType(at')
<1>1. PICK p \in LoadPlaces \union {AfterHit(t), AfterMiss(t)} :
          at' = [at EXCEPT ![t] = p]
  BY DEF Load, Begin, MemHit, MemMiss, ReadDetails, ReadCorrupt, ReadFails,
         StatFound, StatFails, Keep, Goto
<1>2. /\ p \in {"idle"} \union LoadPlaces \union FetchPlaces
      /\ t \in Readers => p \notin FetchPlaces
  BY DEF AfterHit, AfterMiss
<1> QED
  BY <1>1, <1>2, Move

LEMMA TypeStep ==
    ASSUME TypeOK, [Next]_vars
    PROVE  TypeOK'
<1> USE DEF TypeOK, Goto
<1>1. ASSUME NEW t \in Threads, Load(t)
      PROVE  TypeOK'
  <2>1. AtType(at')
    BY <1>1, LoadMove DEF AtType
  <2>2. game' \in [Threads -> Games]
    BY <1>1 DEF Load, Begin, MemHit, MemMiss, ReadDetails, ReadCorrupt, ReadFails,
                StatFound, StatFails, Keep
  <2>3. mem' \in [Keys -> {"none", "found", "missing"}]
    <3>1. Key(t) \in Keys
      BY KeyType
    <3> QED
      BY <1>1, <3>1 DEF Load, Begin, MemHit, MemMiss, ReadDetails, ReadCorrupt, ReadFails,
                        StatFound, StatFails, Keep
  <2>4. UNCHANGED <<disk, save>>
    BY <1>1 DEF Load, Begin, MemHit, MemMiss, ReadDetails, ReadCorrupt, ReadFails,
                StatFound, StatFails, Keep
  <2> QED
    BY <2>1, <2>2, <2>3, <2>4 DEF AtType, disk, save
<1>2. CASE Fetch
  <2> USE DEF disk, save
  <2>1. Key(Fetcher) \in Keys
    BY KeyType
  <2>2. CASE GiveUp \/ Search \/ Query
    BY <2>2 DEF GiveUp, Search, Query
  <2>3. CASE ImagesDone
    BY <2>3 DEF ImagesDone
  <2>7. CASE Cover
    <3>1. covers' \subseteq Games
      BY <2>7 DEF Cover
    <3>2. /\ UNCHANGED <<file, notFound, thumbs, pics, refs, mem, save>>
          /\ AtType(at') /\ game' = game
      BY <2>7, Move DEF Cover, AtType
    <3> QED
      BY <3>1, <3>2 DEF AtType
  <2>6. ASSUME NEW p \in left, Download(p)
        PROVE  TypeOK'
    <3>1. p \in Pictures /\ <<Key(Fetcher), p>> \in Keys \X Pictures
      BY <2>1
    <3>2. /\ UNCHANGED <<file, notFound, covers, refs, mem, at, game>>
          /\ left' \subseteq left
          /\ doc' \subseteq doc \union {p}
          /\ pics' \subseteq pics \union {<<Key(Fetcher), p>>}
          /\ thumbs' \subseteq thumbs \union {Key(Fetcher)}
      BY <2>6 DEF Download
    <3>3. left' \subseteq Pictures /\ doc' \subseteq Pictures
      BY <3>1, <3>2
    <3>4. pics' \subseteq Keys \X Pictures /\ thumbs' \subseteq Keys
      BY <2>1, <3>1, <3>2
    <3> QED
      BY <3>2, <3>3, <3>4
  <2>4. CASE WriteDetails \/ StoreDetails
    BY <2>1, <2>4 DEF WriteDetails, StoreDetails
  <2>5. CASE WriteNotFound \/ StoreMissing
    BY <2>1, <2>5 DEF WriteNotFound, StoreMissing
  <2> QED
    BY <1>2, <2>2, <2>3, <2>4, <2>5, <2>6, <2>7 DEF Fetch, Images
<1>3. CASE Restart
  BY <1>3 DEF Restart, disk
<1>4. CASE UNCHANGED vars
  BY <1>4 DEF vars, disk, save
<1> QED
  BY <1>1, <1>2, <1>3, <1>4 DEF Next

\* Every variable keeps its type, and readers never fetch.
THEOREM TypeCorrect == Spec => []TypeOK
BY TypeInit, TypeStep, PTL DEF Spec

-----------------------------------------------------------------------------
(* Memory is backed by files *)

LEMMA BackedInit == Init => Backed
<1> SUFFICES ASSUME Init PROVE Backed
  OBVIOUS
<1>1. TypeOK
  BY TypeInit
<1>2. MemBacked
  BY DEF Init, MemBacked
<1>3. Pending
  BY DEF Init, Pending
<1> QED
  BY <1>1, <1>2, <1>3 DEF Backed

\* No step takes a details.json or a marker away.
LEMMA FilesStay ==
    ASSUME TypeOK, [Next]_vars
    PROVE  /\ \A k \in Keys : file[k] = "valid" => file'[k] = "valid"
           /\ notFound \subseteq notFound'
<1>1. ASSUME NEW t \in Threads, Load(t)
      PROVE  UNCHANGED <<file, notFound>>
  BY <1>1 DEF Load, Begin, MemHit, MemMiss, ReadDetails, ReadCorrupt, ReadFails,
              StatFound, StatFails, Keep, disk
<1>2. ASSUME Fetch
      PROVE  /\ \A k \in Keys : file[k] = "valid" => file'[k] = "valid"
             /\ notFound \subseteq notFound'
  BY <1>2, KeyType DEF Fetch, GiveUp, Search, Query, Images, Download, ImagesDone, WriteDetails, StoreDetails,
              WriteNotFound, StoreMissing, Cover, disk, TypeOK
<1>3. CASE Restart \/ UNCHANGED vars
  BY <1>3 DEF Restart, vars, disk
<1> QED
  BY <1>1, <1>2, <1>3 DEF Next

LEMMA BackedStep ==
    ASSUME Backed, [Next]_vars
    PROVE  Backed'
<1> USE DEF Backed
<1>0. /\ TypeOK'
      /\ \A k \in Keys : file[k] = "valid" => file'[k] = "valid"
      /\ notFound \subseteq notFound'
  BY TypeStep, FilesStay
<1>k. \A t \in Threads : Key(t) \in Keys /\ Key(t)' \in Keys
  BY <1>0, KeyType DEF TypeOK, Key, Keys
<1>1. MemBacked'
  <2>1. ASSUME NEW t \in Threads, Load(t)
        PROVE  MemBacked'
    <3>1. CASE Keep(t)
      BY <1>0, <1>k, <3>1 DEF Keep, Goto, MemBacked, Pending, TypeOK
    <3>2. CASE UNCHANGED mem
      BY <1>0, <3>2 DEF MemBacked
    <3> QED
      BY <2>1, <3>1, <3>2 DEF Load, Begin, MemHit, MemMiss, ReadDetails, ReadCorrupt,
                              ReadFails, StatFound, StatFails
  <2>2. CASE Fetch
    <3>1. CASE StoreDetails \/ StoreMissing
      BY <1>0, <1>k, <3>1 DEF StoreDetails, StoreMissing, Goto, MemBacked, Pending, TypeOK
    <3>2. CASE UNCHANGED mem
      BY <1>0, <3>2 DEF MemBacked
    <3> QED
      BY <2>2, <3>1, <3>2 DEF Fetch, GiveUp, Search, Query, Images, Download, ImagesDone, WriteDetails,
                              WriteNotFound, Cover
  <2>3. CASE Restart
    BY <2>3 DEF Restart, MemBacked
  <2>4. CASE UNCHANGED vars
    BY <2>4 DEF vars, disk, MemBacked
  <2> QED
    BY <2>1, <2>2, <2>3, <2>4 DEF Next
<1>2. Pending'
  <2>1. ASSUME NEW t \in Threads, Load(t)
        PROVE  Pending'
    <3>1. /\ \A u \in Threads : u # t => at'[u] = at[u] /\ game'[u] = game[u]
          /\ \/ at'[t] \in {"idle", "mem", "read", "stat", "search", "cover"}
             \/ at'[t] = "keep" /\ game'[t] = game[t] /\ file[Key(t)] = "valid"
             \/ at'[t] = "keepMissing" /\ game'[t] = game[t] /\ Key(t) \in notFound
      BY <2>1 DEF Load, Begin, MemHit, MemMiss, ReadDetails, ReadCorrupt, ReadFails,
                  StatFound, StatFails, Keep, Goto, AfterHit, AfterMiss, TypeOK
    <3> QED
      BY <1>0, <1>k, <3>1 DEF Pending, Key
  <2>2. CASE Fetch
    <3>1. /\ game' = game
          /\ \A u \in Threads : u # Fetcher => at'[u] = at[u]
          /\ at'[Fetcher] \notin {"keep", "keepMissing"}
          /\ at'[Fetcher] = "remember" => file'[Key(Fetcher)] = "valid"
          /\ at'[Fetcher] = "rememberMissing" => Key(Fetcher) \in notFound'
      BY <1>k, <2>2 DEF Fetch, GiveUp, Search, Query, Images, Download, ImagesDone, WriteDetails, StoreDetails,
                  WriteNotFound, StoreMissing, Cover, Goto, TypeOK
    <3> QED
      BY <1>0, <1>k, <3>1 DEF Pending, Key
  <2>3. CASE Restart
    BY <2>3 DEF Restart, Pending
  <2>4. CASE UNCHANGED vars
    BY <2>4 DEF vars, disk, Pending, Key
  <2> QED
    BY <2>1, <2>2, <2>3, <2>4 DEF Next
<1> QED
  BY <1>0, <1>1, <1>2

\* Whatever fails and wherever the process dies, memory never claims more
\* than the files would tell the next process.
THEOREM MemoryIsBacked == Spec => []MemBacked
<1>1. Backed => MemBacked
  BY DEF Backed
<1> QED
  BY <1>1, BackedInit, BackedStep, PTL DEF Spec

-----------------------------------------------------------------------------
(* The images that details.json refers to *)

\* References leave the fetcher's hands with the write, and are to files of
\* the game it is fetching.
DocInv ==
    /\ TypeOK
    /\ NoDanglingImage
    /\ at[Fetcher] \notin {"images", "write"} => doc = {}
    /\ \A p \in doc : <<Key(Fetcher), p>> \in pics

LEMMA DocInit == Init => DocInv
<1> SUFFICES ASSUME Init PROVE DocInv
  OBVIOUS
<1>1. NoDanglingImage
  BY DEF Init, NoDanglingImage
<1> QED
  BY <1>1, TypeInit DEF Init, DocInv

LEMMA DocStep ==
    ASSUME DocInv, [Next]_vars
    PROVE  DocInv'
<1> USE DEF DocInv
<1>0. TypeOK' /\ Key(Fetcher) \in Keys
  BY TypeStep, KeyType
<1>1. ASSUME NEW t \in Threads, Load(t)
      PROVE  DocInv'
  <2>1. UNCHANGED <<disk, save>>
    BY <1>1 DEF Load, Begin, MemHit, MemMiss, ReadDetails, ReadCorrupt, ReadFails,
                StatFound, StatFails, Keep
  <2>2. \/ at'[Fetcher] = at[Fetcher] /\ game'[Fetcher] = game[Fetcher]
        \/ at[Fetcher] \notin {"images", "write"}
    BY <1>1 DEF Load, Begin, MemHit, MemMiss, ReadDetails, ReadCorrupt, ReadFails,
                StatFound, StatFails, Keep, Goto, TypeOK
  <2>3. \/ at'[Fetcher] = at[Fetcher] /\ Key(Fetcher)' = Key(Fetcher)
        \/ doc = {}
    BY <2>2 DEF Key
  <2> QED
    BY <1>0, <2>1, <2>3 DEF disk, save, NoDanglingImage
<1>2. CASE GiveUp \/ Search \/ Query \/ StoreDetails \/ WriteNotFound \/ StoreMissing
           \/ ImagesDone
  BY <1>0, <1>2 DEF GiveUp, Search, Query, StoreDetails, WriteNotFound, StoreMissing,
     ImagesDone, Goto, disk, save, NoDanglingImage, Key, TypeOK
<1>3. CASE Cover
  BY <1>0, <1>3 DEF Cover, Goto, save, NoDanglingImage, Key, TypeOK
<1>4. CASE WriteDetails
  <2>1. \A k \in Keys : file'[k] = "valid" /\ k # Key(Fetcher) =>
                          file[k] = "valid" /\ refs'[k] = refs[k]
    BY <1>4 DEF WriteDetails, TypeOK
  <2>2. refs'[Key(Fetcher)] = doc /\ UNCHANGED pics /\ doc' = {}
    BY <1>0, <1>4 DEF WriteDetails, TypeOK
  <2>3. NoDanglingImage'
    BY <2>1, <2>2 DEF NoDanglingImage
  <2> QED
    BY <1>0, <2>2, <2>3
<1>5. ASSUME NEW p \in left, Download(p)
      PROVE  DocInv'
  <2>1. /\ UNCHANGED <<file, refs, at>> /\ Key(Fetcher)' = Key(Fetcher)
        /\ pics \subseteq pics' /\ at[Fetcher] = "images"
    BY <1>5 DEF Download, Key
  <2>2. \A q \in doc' : <<Key(Fetcher), q>> \in pics'
    BY <1>5, <2>1 DEF Download
  <2>3. NoDanglingImage'
    BY <2>1 DEF NoDanglingImage
  <2> QED
    BY <1>0, <2>1, <2>2, <2>3
<1>6. CASE Restart
  BY <1>0, <1>6 DEF Restart, disk, NoDanglingImage
<1>7. CASE UNCHANGED vars
  BY <1>0, <1>7 DEF vars, disk, save, NoDanglingImage, Key
<1> QED
  BY <1>1, <1>2, <1>3, <1>4, <1>5, <1>6, <1>7 DEF Next, Fetch, Images

\* No failed download and no restart leaves a reference without its image.
THEOREM ImagesAreThere == Spec => []NoDanglingImage
<1>1. DocInv => NoDanglingImage
  BY DEF DocInv
<1> QED
  BY <1>1, DocInit, DocStep, PTL DEF Spec

-----------------------------------------------------------------------------
(* Keys whose files parse and whose reads fail only for want of a file *)

SInv ==
    /\ Backed
    /\ \A k \in SoundKeys : file[k] # "corrupt" /\ (file[k] = "valid" => k \notin notFound)
    /\ Key(Fetcher) \in SoundKeys =>
         /\ at[Fetcher] = "stat" => file[Key(Fetcher)] # "valid"
         /\ at[Fetcher] = "cover" =>
              file[Key(Fetcher)] = "valid" \/ Key(Fetcher) \in notFound
         /\ at[Fetcher] \in {"search", "query", "images", "write", "mark"} =>
              file[Key(Fetcher)] # "valid" /\ Key(Fetcher) \notin notFound

\* Memory and files agree: memory adds speed and nothing else.
LEMMA KnownIsOnDisk ==
    ASSUME SInv
    PROVE  \A k \in SoundKeys :
             /\ Known(k) = OnDisk(k)
             /\ OnDisk(k) = "none" <=> file[k] # "valid" /\ k \notin notFound
BY DEF SInv, Backed, MemBacked, TypeOK, Known, OnDisk, SoundKeys

LEMMA SInvInit == Init => SInv
<1> SUFFICES ASSUME Init PROVE SInv
  OBVIOUS
<1>1. Backed
  BY BackedInit
<1>2. \A k \in SoundKeys : file[k] # "corrupt" /\ (file[k] = "valid" => k \notin notFound)
  BY DEF Init, SoundKeys
<1>3. at[Fetcher] = "idle"
  BY DEF Init
<1> QED
  BY <1>1, <1>2, <1>3 DEF SInv

\* The two steps of the fetcher that change a file find a sound key
\* unresolved, and resolve it one way.
LEMMA FileSteps ==
    ASSUME SInv, [Next]_vars
    PROVE  \/ UNCHANGED <<file, notFound>>
           \/ /\ WriteDetails \/ WriteNotFound
              /\ Key(Fetcher) \in SoundKeys =>
                   file[Key(Fetcher)] # "valid" /\ Key(Fetcher) \notin notFound
<1>1. CASE WriteDetails \/ WriteNotFound
  BY <1>1 DEF WriteDetails, WriteNotFound, Goto, SInv
<1>2. CASE UNCHANGED <<file, notFound>>
  BY <1>2
<1> QED
  BY <1>1, <1>2 DEF Next, Load, Begin, MemHit, MemMiss, ReadDetails, ReadCorrupt,
     ReadFails, StatFound, StatFails, Keep, Fetch, GiveUp, Search, Query, Images, Download,
     ImagesDone, StoreDetails, StoreMissing, Cover, Restart, vars, disk

\* A key that the two steps do not touch keeps its files.
LEMMA OtherKeys ==
    ASSUME SInv, WriteDetails \/ WriteNotFound,
           NEW k \in Keys, k # Key(Fetcher)
    PROVE  file'[k] = file[k] /\ (k \in notFound' <=> k \in notFound)
BY DEF WriteDetails, WriteNotFound, SInv, Backed, TypeOK

\* Where a step leaves the fetcher with a sound key: it did not move, or it got there on
\* evidence from memory or the files.
LEMMA FetcherSteps ==
    ASSUME SInv, [Next]_vars, Key(Fetcher) \in SoundKeys
    PROVE  \/ at'[Fetcher] = at[Fetcher] /\ game'[Fetcher] = game[Fetcher]
           \/ at'[Fetcher] \in {"idle", "mem", "read", "keep", "keepMissing",
                                "remember", "rememberMissing"}
           \/ /\ game'[Fetcher] = game[Fetcher]
              /\ UNCHANGED <<file, notFound>>
              /\ \/ /\ at'[Fetcher] \in {"stat", "search"}
                    /\ file[Key(Fetcher)] # "valid"
                    /\ at'[Fetcher] = "search" => Key(Fetcher) \notin notFound
                 \/ /\ at'[Fetcher] = "cover"
                    /\ file[Key(Fetcher)] = "valid" \/ Key(Fetcher) \in notFound
                 \/ /\ at[Fetcher] \in {"search", "query", "images"}
                    /\ at'[Fetcher] \in {"query", "images", "write", "mark"}
<1> USE DEF SInv, Backed, TypeOK
<1>0. Key(Fetcher) \in Keys
  BY KeyType
<1>1. ASSUME NEW t \in Readers, Load(t)
      PROVE  at'[Fetcher] = at[Fetcher] /\ game'[Fetcher] = game[Fetcher]
  BY <1>1 DEF Load, Begin, MemHit, MemMiss, ReadDetails, ReadCorrupt, ReadFails,
              StatFound, StatFails, Keep, Goto
<1>2. CASE Load(Fetcher)
  <2>1. CASE MemHit(Fetcher)
    BY <1>0, <2>1 DEF MemHit, Goto, AfterHit, MemBacked, disk
  <2>2. CASE Keep(Fetcher)
    BY <1>0, <2>2 DEF Keep, Goto, AfterHit, Pending, disk
  <2>3. CASE ReadFails(Fetcher)
    BY <1>0, <2>3 DEF ReadFails, Goto, SoundKeys, disk
  <2>4. CASE StatFails(Fetcher)
    BY <1>0, <2>4 DEF StatFails, Goto, AfterMiss, SoundKeys, disk
  <2>5. CASE ReadCorrupt(Fetcher)
    BY <1>0, <2>5 DEF ReadCorrupt
  <2> QED
    BY <1>2, <2>1, <2>2, <2>3, <2>4, <2>5
       DEF Load, Begin, MemMiss, ReadDetails, StatFound, Goto
<1>3. CASE Fetch
  <2>1. CASE StoreDetails
    BY <1>0, <2>1 DEF StoreDetails, Goto, Pending, disk
  <2> QED
    BY <1>3, <2>1 DEF Fetch, GiveUp, Search, Query, Images, Download, ImagesDone,
                      WriteDetails, WriteNotFound, StoreMissing, Cover, Goto, disk
<1>4. CASE Restart \/ UNCHANGED vars
  BY <1>4 DEF Restart, vars
<1> QED
  BY <1>1, <1>2, <1>3, <1>4 DEF Next

\* The fetcher keeps its game until it is idle again.
LEMMA FetcherGame ==
    ASSUME TypeOK, [Next]_vars
    PROVE  Key(Fetcher)' = Key(Fetcher) \/ at'[Fetcher] = "mem"
<1>1. game'[Fetcher] = game[Fetcher] \/ at'[Fetcher] = "mem"
  BY DEF Next, Load, Begin, MemHit, MemMiss, ReadDetails, ReadCorrupt,
     ReadFails, StatFound, StatFails, Keep, Fetch, GiveUp, Search, Query, Images, Download,
     ImagesDone, WriteDetails, WriteNotFound, StoreDetails, StoreMissing, Cover, Restart,
     Goto, vars, TypeOK
<1> QED
  BY <1>1 DEF Key

LEMMA SInvStep ==
    ASSUME SInv, [Next]_vars
    PROVE  SInv'
<1>1. Backed'
  BY BackedStep DEF SInv
<1>2. /\ \A k \in Keys : file[k] = "valid" => file'[k] = "valid"
      /\ notFound \subseteq notFound'
  BY FilesStay DEF SInv, Backed
<1>3. Key(Fetcher) \in Keys
  BY KeyType DEF SInv, Backed
<1>4. \A k \in SoundKeys : file'[k] # "corrupt" /\ (file'[k] = "valid" => k \notin notFound')
  <2>1. CASE UNCHANGED <<file, notFound>>
    BY <2>1 DEF SInv
  <2>2. CASE /\ WriteDetails \/ WriteNotFound
             /\ Key(Fetcher) \in SoundKeys =>
                  file[Key(Fetcher)] # "valid" /\ Key(Fetcher) \notin notFound
    <3>1. ASSUME NEW k \in SoundKeys, k # Key(Fetcher)
          PROVE  file'[k] # "corrupt" /\ (file'[k] = "valid" => k \notin notFound')
      BY <2>2, <3>1, OtherKeys DEF SInv, SoundKeys
    <3>2. ASSUME Key(Fetcher) \in SoundKeys
          PROVE  /\ file'[Key(Fetcher)] # "corrupt"
                 /\ file'[Key(Fetcher)] = "valid" => Key(Fetcher) \notin notFound'
      BY <1>3, <2>2, <3>2 DEF SInv, Backed, TypeOK, WriteDetails, WriteNotFound
    <3> QED
      BY <3>1, <3>2
  <2> QED
    BY <2>1, <2>2, FileSteps
<1>5. \/ Key(Fetcher)' = Key(Fetcher)
      \/ at'[Fetcher] = "mem"
  BY FetcherGame DEF SInv, Backed
<1>6. CASE at'[Fetcher] = "mem" \/ Key(Fetcher) \notin SoundKeys
  BY <1>1, <1>4, <1>5, <1>6 DEF SInv
<1>7. CASE Key(Fetcher) \in SoundKeys /\ UNCHANGED <<file, notFound>>
  BY <1>1, <1>3, <1>4, <1>7, FetcherSteps DEF SInv, Key
<1>8. CASE WriteDetails \/ WriteNotFound
  <2>1. at'[Fetcher] \in {"remember", "rememberMissing"}
    BY <1>8 DEF WriteDetails, WriteNotFound, Goto, SInv, Backed, TypeOK
  <2> QED
    BY <1>1, <1>4, <2>1 DEF SInv
<1> QED
  BY <1>6, <1>7, <1>8, FileSteps

LEMMA SInvariance == Spec => []SInv
BY SInvInit, SInvStep, PTL DEF Spec

\* IGDB is never asked about a game that memory or the files know, whatever
\* goes wrong with the files of others.
THEOREM NoNeedlessSearch == Spec => []SearchOnlyUnknown
<1>1. SInv => SearchOnlyUnknown
  BY KnownIsOnDisk, KeyType DEF SInv, Backed, SearchOnlyUnknown
<1> QED
  BY <1>1, SInvariance, PTL

\* What is known of a game stays known: no interleaving of readers, fetcher
\* and restarts turns details into a 404, or a tombstone into another search.
THEOREM ResolvedStays == Spec => ResolutionStable
<1>1. ASSUME SInv, SInv', [Next]_vars, NEW k \in SoundKeys, Known(k) # "none"
      PROVE  Known(k)' = Known(k)
  <2>1. /\ Known(k) = OnDisk(k)
        /\ OnDisk(k) = "none" <=> file[k] # "valid" /\ k \notin notFound
    BY <1>1, KnownIsOnDisk
  <2>2. Known(k)' = OnDisk(k)'
    BY <1>1 DEF SInv, Backed, MemBacked, TypeOK, Known, OnDisk, SoundKeys
  <2>3. CASE UNCHANGED <<file, notFound>>
    BY <2>1, <2>2, <2>3 DEF OnDisk
  <2>4. CASE /\ WriteDetails \/ WriteNotFound
             /\ Key(Fetcher) \in SoundKeys =>
                  file[Key(Fetcher)] # "valid" /\ Key(Fetcher) \notin notFound
    <3>1. k # Key(Fetcher)
      BY <1>1, <2>1, <2>4
    <3>2. file'[k] = file[k] /\ (k \in notFound' <=> k \in notFound)
      BY <1>1, <2>4, <3>1, OtherKeys DEF SoundKeys
    <3> QED
      BY <2>1, <2>2, <3>2 DEF OnDisk
  <2> QED
    BY <1>1, <2>3, <2>4, FileSteps
<1>2. SInv /\ SInv' /\ [Next]_vars =>
        [\A k \in SoundKeys : Known(k) # "none" => Known(k)' = Known(k)]_vars
  BY <1>1
<1> QED
  BY <1>2, SInvariance, PTL DEF Spec, ResolutionStable

-----------------------------------------------------------------------------
(* The outcomes of fetchOne *)

\* GameCache's keys are the sound ones.
LEMMA OutcomesKeys == Outcomes!Keys = SoundKeys
BY DEF Outcomes!Keys, SoundGames, SoundKeys, Keys

\* The initial files are initial files of GameCache.
LEMMA OutcomesInit == Init => Outcomes!CacheInit
<1> SUFFICES ASSUME Init PROVE Outcomes!CacheInit
  OBVIOUS
<1>1. SoundKeys \subseteq Keys /\ SoundGames \subseteq Games
  BY DEF SoundKeys, SoundGames
<1>2. /\ {k \in SoundKeys : file[k] = "valid"} \subseteq SoundKeys
      /\ notFound \intersect SoundKeys \subseteq
           SoundKeys \ {k \in SoundKeys : file[k] = "valid"}
      /\ thumbs \intersect SoundKeys \subseteq SoundKeys
      /\ covers \intersect SoundGames \subseteq SoundGames
  BY <1>1 DEF Init
<1> QED
  BY <1>2, OutcomesKeys DEF Outcomes!CacheInit

\* What GameCache sees of the files.
Seen == <<covers \intersect SoundGames, {k \in SoundKeys : file[k] = "valid"},
          notFound \intersect SoundKeys, thumbs \intersect SoundKeys>>

\* Every step leaves the files of sound keys alone or has one of GameCache's
\* outcomes for the fetcher's game.
LEMMA OutcomesStep ==
    ASSUME SInv, [Next]_vars
    PROVE  [Outcomes!CacheNext]_<<covers \intersect SoundGames, Outcomes!cacheVars>>
<1> DEFINE valid == {k \in SoundKeys : file[k] = "valid"}
<1> PICK g \in Games : g = game[Fetcher]
  BY DEF SInv, Backed, TypeOK
<1> USE DEF Outcomes!cacheVars, Outcomes!Resolved, Outcomes!EnsureCover
<1> SUFFICES Outcomes!CacheNext \/ UNCHANGED Seen
  BY DEF Seen
<1>0. /\ g \in Games /\ Key(Fetcher) = KeyOf[g] /\ KeyOf[g] \in Keys
      /\ file \in [Keys -> {"absent", "valid", "corrupt", "unreadable"}]
  BY KeyType DEF SInv, Backed, TypeOK, Key
<1>a. /\ Key(Fetcher) \in SoundKeys <=> g \in SoundGames
      /\ g \in SoundGames => [h \in SoundGames |-> KeyOf[h]][g] = KeyOf[g]
      /\ SoundKeys \subseteq Keys
  BY <1>0 DEF SoundGames, SoundKeys
<1>1. ASSUME NEW p \in left, Download(p)
      PROVE  Outcomes!CacheNext \/ UNCHANGED Seen
  <2>0. /\ UNCHANGED <<file, notFound, covers>>
        /\ thumbs' = thumbs \/ thumbs' = thumbs \union {KeyOf[g]}
    BY <1>0, <1>1 DEF Download
  <2>1. CASE g \in SoundGames
    <3>1. KeyOf[g] \notin valid \union (notFound \intersect SoundKeys)
      BY <1>0, <1>1, <1>a, <2>1 DEF Download, SInv
    <3>2. Outcomes!FetchFails(g)
      BY <1>0, <1>a, <2>0, <2>1, <3>1 DEF Outcomes!FetchFails
    <3> QED
      BY <2>1, <3>2 DEF Outcomes!CacheNext
  <2>2. CASE g \notin SoundGames
    BY <1>0, <1>a, <2>0, <2>2 DEF Seen
  <2> QED
    BY <2>1, <2>2
<1>2. CASE WriteDetails
  <2>0. UNCHANGED <<notFound, thumbs, covers>>
    BY <1>2 DEF WriteDetails
  <2>1. CASE g \in SoundGames
    <3>1. KeyOf[g] \notin valid \union (notFound \intersect SoundKeys)
      BY <1>0, <1>2, <1>a, <2>1 DEF WriteDetails, Goto, SInv
    <3>2. valid' = valid \union {KeyOf[g]}
      BY <1>0, <1>2, <1>a, <2>1 DEF WriteDetails
    <3>3. Outcomes!FetchSaves(g)
      BY <1>a, <2>0, <2>1, <3>1, <3>2 DEF Outcomes!FetchSaves
    <3> QED
      BY <2>1, <3>3 DEF Outcomes!CacheNext
  <2>2. CASE g \notin SoundGames
    <3>1. valid' = valid
      BY <1>0, <1>2, <1>a, <2>2 DEF WriteDetails
    <3> QED
      BY <2>0, <3>1 DEF Seen
  <2> QED
    BY <2>1, <2>2
<1>3. CASE WriteNotFound
  <2>0. /\ UNCHANGED <<file, thumbs, covers>>
        /\ notFound' = notFound \union {KeyOf[g]}
    BY <1>0, <1>3 DEF WriteNotFound
  <2>1. CASE g \in SoundGames
    <3>1. KeyOf[g] \notin valid \union (notFound \intersect SoundKeys)
      BY <1>0, <1>3, <1>a, <2>1 DEF WriteNotFound, Goto, SInv
    <3>2. Outcomes!FetchNoMatch(g)
      BY <1>0, <1>a, <2>0, <2>1, <3>1 DEF Outcomes!FetchNoMatch
    <3> QED
      BY <2>1, <3>2 DEF Outcomes!CacheNext
  <2>2. CASE g \notin SoundGames
    BY <1>0, <1>a, <2>0, <2>2 DEF Seen
  <2> QED
    BY <2>1, <2>2
<1>4. CASE Cover
  <2>0. /\ UNCHANGED <<file, notFound, thumbs>>
        /\ \/ UNCHANGED covers
           \/ KeyOf[g] \in thumbs /\ covers' = covers \union {g}
    BY <1>0, <1>4 DEF Cover
  <2>1. CASE g \in SoundGames
    <3>1. KeyOf[g] \in valid \union (notFound \intersect SoundKeys)
      BY <1>0, <1>4, <1>a, <2>1 DEF Cover, Goto, SInv
    <3>2. Outcomes!FetchCached(g)
      BY <1>0, <1>a, <2>0, <2>1, <3>1 DEF Outcomes!FetchCached
    <3> QED
      BY <2>1, <3>2 DEF Outcomes!CacheNext
  <2>2. CASE g \notin SoundGames
    BY <1>0, <1>a, <2>0, <2>2 DEF Seen
  <2> QED
    BY <2>1, <2>2
<1>5. CASE UNCHANGED <<file, notFound, thumbs, covers>>
  BY <1>5 DEF Seen
<1>6. \/ \E p \in left : Download(p)
      \/ WriteDetails \/ WriteNotFound \/ Cover
      \/ UNCHANGED <<file, notFound, thumbs, covers>>
  BY DEF Next, Load, Begin, MemHit, MemMiss, ReadDetails, ReadCorrupt, ReadFails,
     StatFound, StatFails, Keep, Fetch, GiveUp, Search, Query, Images, ImagesDone,
     StoreDetails, StoreMissing, Restart, vars, disk
<1> QED
  <2>1. CASE \E p \in left : Download(p)
    BY <1>1, <2>1, Zenon
  <2> QED
    BY <1>2, <1>3, <1>4, <1>5, <1>6, <2>1, Zenon

\* Call by call, with readers, restarts and the faults of other keys anywhere,
\* fetchOne has only the outcomes that Library's pipeline counts on.
THEOREM ImplementsOutcomes == Spec => OutcomesSpec
BY OutcomesInit, OutcomesStep, SInvariance, PTL
   DEF Spec, OutcomesSpec, Outcomes!CacheSpec
=============================================================================
