-------------------------------- MODULE Saves --------------------------------
(***************************************************************************)
(* The battery save (SRAM) of one game: the play pages that restore it and *)
(* post it back, the two save handlers of the server, and the file.        *)
(*                                                                         *)
(* A page's onGameStart asks for the save, and only some answers let it    *)
(* register the periodic save, which posts the emulator's SRAM without     *)
(* waiting for an answer: posts of one page or of several may be in flight *)
(* together, and reach the disk in any order or never.  saves.Put is one   *)
(* atomic step or an error (AtomicStore).                                  *)
(*                                                                         *)
(* The content of a save is how far each session has got in it; only the   *)
(* session's own play moves its entry.                                     *)
(***************************************************************************)
EXTENDS Integers

CONSTANTS
    Pages,          \* loads of the play page for this game
    Past,           \* the sessions before the model starts
    None,           \* no save file
    Empty,          \* a buffer of zero length, or no buffer at all
    MaxStarts,      \* bound: starts of the game in each page
    MaxPosts,       \* bound: posts of one page
    MaxProgress,    \* bound: how far a session gets
    UnlistsPlayed   \* a rescan may lose a game that a page is playing

ASSUME SavesAssumption ==
    /\ Past \notin Pages
    /\ MaxStarts \in [Pages -> Nat] /\ MaxPosts \in Nat
    /\ MaxProgress \in Nat \ {0}
    /\ UnlistsPlayed \in BOOLEAN

\* The value of a save: the progress of each session in it.
Sessions == Pages \union {Past}
Data     == [Sessions -> 0 .. MaxProgress]
Fresh    == [s \in Sessions |-> 0]

ASSUME ContentAssumption == None \notin Data /\ Empty \notin Data /\ None # Empty

\* d holds all the progress of e.
Covers(d, e) ==
    e \in Data => d \in Data /\ \A s \in Sessions : e[s] <= d[s]

\* Invocations of onGameStart.
Calls == UNION {{p} \X (1 .. MaxStarts[p]) : p \in Pages}

VARIABLES
    file,      \* the save on disk
    listed,    \* the catalog has the game
    page,      \* each page: "new", "open" or "closed"
    sram,      \* the save memory of each page's emulator
    handlers,  \* saveSaveFiles listeners of each page
    calls,     \* each onGameStart: where it is, and the file when the server
               \* answered it
    posts,     \* POSTs on their way to the disk
    sent,      \* how many POSTs each page has made
    base,      \* history: the file when the server gave the answer that the
               \* page acted on
    kept       \* history: the file when a page was last opened with no other
               \* open and no post on its way

vars == <<file, listed, page, sram, handlers, calls, posts, sent, base, kept>>

\* "ok", "absent" and "failed" are 2xx, 404 and everything else on their way
\* to the page.
CallPlaces == {"unsent", "sent", "admitted", "ok", "absent", "failed", "done"}
Posts == [page : Pages, id : 1 .. MaxPosts, data : Data, at : {"sent", "admitted"}]

TypeOK ==
    /\ file \in Data \union {None}
    /\ listed \in BOOLEAN
    /\ page \in [Pages -> {"new", "open", "closed"}]
    /\ sram \in [Pages -> Data]
    /\ handlers \in [Pages -> {0, 1}]
    /\ calls \in [Calls -> [at : CallPlaces, was : Data \union {None}]]
    /\ \A c \in Calls : calls[c].at = "ok" => calls[c].was \in Data
    /\ posts \subseteq Posts
    /\ sent \in [Pages -> 0 .. MaxPosts]
    /\ base \in [Pages -> Data \union {None}]
    /\ kept \in Data \union {None}

Init ==
    /\ file \in {None, [Fresh EXCEPT ![Past] = 1]}
    /\ listed = TRUE
    /\ page = [p \in Pages |-> "new"]
    /\ sram = [p \in Pages |-> Fresh]
    /\ handlers = [p \in Pages |-> 0]
    /\ calls = [c \in Calls |-> [at |-> "unsent", was |-> None]]
    /\ posts = {}
    /\ sent = [p \in Pages |-> 0]
    /\ base = [p \in Pages |-> None]
    /\ kept = file

-----------------------------------------------------------------------------
(* The play page *)

\* The page finds the game in /api/games and starts the emulator.  It waits
\* for no other page and for no post of a closed one; kept remembers the file
\* where there is neither.
Open(p) ==
    /\ page[p] = "new"
    /\ listed
    /\ page' = [page EXCEPT ![p] = "open"]
    /\ kept' = IF posts = {} /\ \A q \in Pages : page[q] # "open" THEN file ELSE kept
    /\ UNCHANGED <<file, listed, sram, handlers, calls, posts, sent, base>>

\* The tab is closed; what it sent is still on its way.
Close(p) ==
    /\ page[p] = "open"
    /\ page' = [page EXCEPT ![p] = "closed"]
    /\ UNCHANGED <<file, listed, sram, handlers, calls, posts, sent, base, kept>>

\* The game writes to its save memory.
Play(p) ==
    /\ page[p] = "open"
    /\ sram[p][p] < MaxProgress
    /\ sram' = [sram EXCEPT ![p][p] = @ + 1]
    /\ UNCHANGED <<file, listed, page, handlers, calls, posts, sent, base, kept>>

CallAt(c, from, to) ==
    /\ calls[c].at = from
    /\ calls' = [calls EXCEPT ![c].at = to]

\* onGameStart: fetch(`${saveBase}/sram`).
OnGameStart(c) ==
    /\ page[c[1]] = "open"
    /\ \A i \in 1 .. c[2] - 1 : calls[<<c[1], i>>].at # "unsent"
    /\ CallAt(c, "unsent", "sent")
    /\ UNCHANGED <<file, listed, page, sram, handlers, posts, sent, base, kept>>

\* Mutant of Register: the flag sramHandlerRegistered is gone.
RegisterTwice(p) == handlers' = [handlers EXCEPT ![p] = @ + 1]

\* Only the first answer that allows it registers the periodic save.
Register(p) == handlers' = [handlers EXCEPT ![p] = 1]

\* 2xx: the emulator takes the bytes, and the periodic save is registered.
Restore(c) ==
    /\ page[c[1]] = "open"
    /\ CallAt(c, "ok", "done")
    /\ sram' = [sram EXCEPT ![c[1]] = calls[c].was]
    /\ base' = [base EXCEPT ![c[1]] = calls[c].was]
    /\ Register(c[1])
    /\ UNCHANGED <<file, listed, page, posts, sent, kept>>

\* 404: a game without a save yet.  A page that already has its listener
\* goes on as before.
StartAfresh(c) ==
    /\ page[c[1]] = "open"
    /\ CallAt(c, "absent", "done")
    /\ base' = IF handlers[c[1]] = 0
                  THEN [base EXCEPT ![c[1]] = calls[c].was] ELSE base
    /\ Register(c[1])
    /\ UNCHANGED <<file, listed, page, sram, posts, sent, kept>>

\* Any other status, a failed fetch, or an exception on the way to the
\* emulator: nothing is registered.
Refuse(c) ==
    /\ page[c[1]] = "open"
    /\ CallAt(c, "failed", "done") \/ CallAt(c, "ok", "done")
    /\ UNCHANGED <<file, listed, page, sram, handlers, posts, sent, base, kept>>

\* Mutant of PostSave: a buffer of zero length is posted like any other.
PostSaveEmpty(p, data) ==
    posts' = posts \union {[page |-> p, id |-> sent[p] + 1, data |-> data, at |-> "sent"]}

\* postSave makes no request for an empty buffer.
PostSave(p, data) ==
    /\ data # Empty
    /\ posts' = posts \union {[page |-> p, id |-> sent[p] + 1, data |-> data, at |-> "sent"]}

\* saveSaveFiles: the emulator hands its save memory to the listener, or
\* nothing when there is no save file yet.
Tick(p) ==
    /\ page[p] = "open"
    /\ handlers[p] > 0
    /\ sent[p] < MaxPosts
    /\ \E data \in {sram[p], Empty} : PostSave(p, data)
    /\ sent' = [sent EXCEPT ![p] = @ + 1]
    /\ UNCHANGED <<file, listed, page, sram, handlers, calls, base, kept>>

-----------------------------------------------------------------------------
(* The server *)

\* handleGetSave asks the catalog first.
GateGet(c) ==
    /\ IF listed
          THEN CallAt(c, "sent", "admitted")
          ELSE /\ calls[c].at = "sent"
               /\ calls' = [calls EXCEPT ![c] = [at |-> "absent", was |-> file]]
    /\ UNCHANGED <<file, listed, page, sram, handlers, posts, sent, base, kept>>

\* Mutant of ServeGet: saves.Get reports every failed read as a missing file.
ServeGetLenient(c) ==
    /\ calls[c].at = "admitted"
    /\ \E answer \in {"ok", "absent"} :
         /\ answer = "ok" => file # None
         /\ calls' = [calls EXCEPT ![c] = [at |-> answer, was |-> file]]
    /\ UNCHANGED <<file, listed, page, sram, handlers, posts, sent, base, kept>>

\* saves.Get: the bytes, nothing for a missing file, an error for a file that
\* cannot be read.
ServeGet(c) ==
    /\ calls[c].at = "admitted"
    /\ \E answer \in {"ok", "absent", "failed"} :
         /\ answer = "ok" => file # None
         /\ answer = "absent" => file = None
         /\ calls' = [calls EXCEPT ![c] = [at |-> answer, was |-> file]]
    /\ UNCHANGED <<file, listed, page, sram, handlers, posts, sent, base, kept>>

\* handlePostSave asks the catalog first, and drops what is not listed.
GatePost(m) ==
    /\ m.at = "sent"
    /\ posts' = (posts \ {m}) \union (IF listed THEN {[m EXCEPT !.at = "admitted"]} ELSE {})
    /\ UNCHANGED <<file, listed, page, sram, handlers, calls, sent, base, kept>>

\* saves.Put succeeds.
Put(m) ==
    /\ m.at = "admitted"
    /\ file' = m.data
    /\ posts' = posts \ {m}
    /\ UNCHANGED <<listed, page, sram, handlers, calls, sent, base, kept>>

\* saves.Put fails: the body was cut short or too large, or the disk failed.
\* The page only logs it.
PutFails(m) ==
    /\ m.at = "admitted"
    /\ posts' = posts \ {m}
    /\ UNCHANGED <<file, listed, page, sram, handlers, calls, sent, base, kept>>

\* A rescan publishes a catalog with or without the game, whose directory may
\* have been unreadable.
Rescan ==
    /\ UnlistsPlayed \/ \A p \in Pages : page[p] # "open"
    /\ listed' = ~listed
    /\ UNCHANGED <<file, page, sram, handlers, calls, posts, sent, base, kept>>

\* Mutant of Restart: the listener comes up before the first scan.
RestartCold ==
    /\ listed' = FALSE
    /\ posts' = {m \in posts : m.at = "sent"}
    /\ calls' = [c \in Calls |-> IF calls[c].at = "admitted"
                                    THEN [calls[c] EXCEPT !.at = "failed"] ELSE calls[c]]
    /\ UNCHANGED <<file, page, sram, handlers, sent, base, kept>>

\* The server stops and starts again.  Start scans before the listener comes
\* up, so no request ever meets an empty catalog; the requests it was
\* handling are lost.
Restart ==
    /\ posts' = {m \in posts : m.at = "sent"}
    /\ calls' = [c \in Calls |-> IF calls[c].at = "admitted"
                                    THEN [calls[c] EXCEPT !.at = "failed"] ELSE calls[c]]
    /\ UNCHANGED <<file, listed, page, sram, handlers, sent, base, kept>>

-----------------------------------------------------------------------------
(* The network *)

\* A request or an answer is lost.
LoseCall(c) ==
    /\ \E at \in {"sent", "ok", "absent"} : CallAt(c, at, "failed")
    /\ UNCHANGED <<file, listed, page, sram, handlers, posts, sent, base, kept>>

LosePost(m) ==
    /\ m.at = "sent"
    /\ posts' = posts \ {m}
    /\ UNCHANGED <<file, listed, page, sram, handlers, calls, sent, base, kept>>

-----------------------------------------------------------------------------
PageStep(p) == Open(p) \/ Close(p) \/ Play(p) \/ Tick(p)

CallStep(c) ==
    \/ OnGameStart(c) \/ Restore(c) \/ StartAfresh(c) \/ Refuse(c)
    \/ GateGet(c) \/ ServeGet(c) \/ LoseCall(c)

PostStep(m) == GatePost(m) \/ Put(m) \/ PutFails(m) \/ LosePost(m)

Next ==
    \/ \E p \in Pages : PageStep(p)
    \/ \E c \in Calls : CallStep(c)
    \/ \E m \in posts : PostStep(m)
    \/ Rescan
    \/ Restart

Spec == Init /\ [][Next]_vars

-----------------------------------------------------------------------------
(* Properties *)

\* What a page will post from now on contains all that the file held when the
\* server answered it, whether that answer was the save, a 404 or an error:
\* an existing save is never overwritten by a page that did not restore it.
\* The comment in play.js refuses to register "so the next auto-save tick
\* doesn't overwrite a still-on-disk-but-unreadable real save".
RestoreBeforeSave ==
    \A p \in Pages : handlers[p] > 0 => Covers(sram[p], base[p])

\* Whatever the file held when a page was last opened with no other open and
\* no post on its way stays in it, however later pages overlap, in whatever
\* order and however late their posts land, and whatever the server, the disk
\* and the network do.  So a player who opens one page after the other, each
\* when the posts of the last have landed, never loses anything; pages that
\* overlap, and a page opened before a late post, endanger each other only.
ProgressKept == Covers(file, kept)

-----------------------------------------------------------------------------
(* What a comment says, and the code does not do *)

\* play.js: a 404 means "no save on disk (legitimate fresh game)", and every
\* page that cannot tell refuses to register "so the next auto-save tick
\* doesn't overwrite" a save: no post that the server lets in is about to
\* undo what the sessions of the past left in the file.
PastKept ==
    \A m \in posts :
        m.at = "admitted" /\ file \in Data => m.data[Past] >= file[Past]
=============================================================================
