----------------------------- MODULE SavesProofs -----------------------------
(***************************************************************************)
(* Proofs about Saves, for every number of pages and every bound.          *)
(***************************************************************************)
EXTENDS Saves, TLAPS

\* A save with more progress covers what the one with less covered.
LEMMA CoversGrows ==
  ASSUME NEW d \in Data, NEW e, NEW p \in Pages, Covers(d, e), d[p] < MaxProgress
  PROVE  [d EXCEPT ![p] = @ + 1] \in Data /\ Covers([d EXCEPT ![p] = @ + 1], e)
  <1>. DEFINE f == [d EXCEPT ![p] = @ + 1]
  <1>1. p \in Sessions  BY DEF Sessions
  <1>2. f \in Data
    <2>1. d[p] \in 0 .. MaxProgress  BY <1>1 DEF Data
    <2>2. d[p] + 1 \in 0 .. MaxProgress  BY <2>1, SavesAssumption
    <2>. QED  BY <1>1, <2>2 DEF Data
  <1>3. ASSUME e \in Data, NEW s \in Sessions  PROVE e[s] <= f[s]
    <2>1. e[s] \in 0 .. MaxProgress /\ d[s] \in 0 .. MaxProgress  BY <1>3 DEF Data
    <2>2. e[s] <= d[s]  BY <1>3 DEF Covers
    <2>3. f[s] = IF s = p THEN d[s] + 1 ELSE d[s]  BY <1>1, <1>3 DEF Data
    <2>. QED  BY <2>1, <2>2, <2>3, SavesAssumption
  <1>. QED  BY <1>2, <1>3 DEF Covers

-----------------------------------------------------------------------------
(* Types *)

LEMMA InitialData == Fresh \in Data /\ [Fresh EXCEPT ![Past] = 1] \in Data
  BY SavesAssumption DEF Fresh, Data, Sessions

\* One lemma per kind of step: what pages do ...
LEMMA PageType ==
  ASSUME TypeOK, NEW p \in Pages, PageStep(p)
  PROVE  TypeOK'
  <1>1. CASE Open(p)  BY <1>1 DEF TypeOK, Open
  <1>2. CASE Close(p)  BY <1>2 DEF TypeOK, Close
  <1>3. CASE Play(p)
    <2>1. sram[p] \in Data /\ sram[p][p] < MaxProgress  BY <1>3 DEF TypeOK, Play
    <2>2. Covers(sram[p], None)  BY ContentAssumption DEF Covers
    <2>3. [sram[p] EXCEPT ![p] = @ + 1] \in Data  BY <2>1, <2>2, CoversGrows
    <2>. QED  BY <1>3, <2>3 DEF TypeOK, Play
  <1>4. CASE Tick(p)
    <2>1. PICK data \in {sram[p], Empty} : PostSave(p, data)  BY <1>4 DEF Tick
    <2>2. data \in Data  BY <2>1 DEF PostSave, TypeOK
    <2>3. sent[p] + 1 \in 1 .. MaxPosts /\ sent' \in [Pages -> 0 .. MaxPosts]
      BY <1>4, SavesAssumption DEF Tick, TypeOK
    <2>4. posts' \subseteq Posts  BY <2>1, <2>2, <2>3 DEF PostSave, Posts, TypeOK
    <2>. QED  BY <1>4, <2>3, <2>4 DEF TypeOK, Tick
  <1>. QED  BY <1>1, <1>2, <1>3, <1>4 DEF PageStep

\* ... what becomes of an onGameStart ...
LEMMA CallType ==
  ASSUME TypeOK, NEW c \in Calls, CallStep(c)
  PROVE  TypeOK'
  <1>. c[1] \in Pages  BY DEF Calls
  <1>. USE DEF TypeOK, CallPlaces, CallAt
  <1>1. CASE OnGameStart(c)  BY <1>1 DEF OnGameStart
  <1>2. CASE Restore(c)
    <2>1. PICK d \in Data : d = calls[c].was  BY <1>2 DEF Restore
    <2>. QED  BY <1>2, <2>1 DEF Restore, Register
  <1>3. CASE StartAfresh(c)  BY <1>3 DEF StartAfresh, Register
  <1>4. CASE Refuse(c)  BY <1>4 DEF Refuse
  <1>5. CASE GateGet(c)  BY <1>5 DEF GateGet
  <1>6. CASE ServeGet(c)  BY <1>6 DEF ServeGet
  <1>7. CASE LoseCall(c)  BY <1>7 DEF LoseCall
  <1>. QED  BY <1>1, <1>2, <1>3, <1>4, <1>5, <1>6, <1>7 DEF CallStep

\* ... and of a POST.
LEMMA PostType ==
  ASSUME TypeOK, NEW m \in posts, PostStep(m)
  PROVE  TypeOK'
  <1>. m \in Posts  BY DEF TypeOK
  <1>. USE DEF TypeOK, Posts
  <1>1. CASE GatePost(m)  BY <1>1 DEF GatePost
  <1>2. CASE Put(m)  BY <1>2 DEF Put
  <1>3. CASE PutFails(m)  BY <1>3 DEF PutFails
  <1>4. CASE LosePost(m)  BY <1>4 DEF LosePost
  <1>. QED  BY <1>1, <1>2, <1>3, <1>4 DEF PostStep

LEMMA Types ==
  /\ Init => TypeOK
  /\ TypeOK /\ [Next]_vars => TypeOK'
  <1>1. Init => TypeOK
    BY InitialData, SavesAssumption DEF Init, TypeOK, CallPlaces
  <1>2. ASSUME TypeOK, [Next]_vars  PROVE TypeOK'
    <2>1. CASE \E p \in Pages : PageStep(p)  BY <1>2, <2>1, PageType
    <2>2. CASE \E c \in Calls : CallStep(c)  BY <1>2, <2>2, CallType
    <2>3. CASE \E m \in posts : PostStep(m)  BY <1>2, <2>3, PostType
    <2>4. CASE Rescan  BY <1>2, <2>4 DEF TypeOK, Rescan
    <2>5. CASE Restart
      BY <1>2, <2>5 DEF TypeOK, Restart, CallPlaces
    <2>6. CASE UNCHANGED vars  BY <1>2, <2>6 DEF TypeOK, vars
    <2>. QED  BY <1>2, <2>1, <2>2, <2>3, <2>4, <2>5, <2>6 DEF Next
  <1>. QED  BY <1>1, <1>2

\* Every variable keeps its type, whatever the bounds: in particular a page
\* never has two listeners and a 2xx always carries a save.
THEOREM TypeCorrect == Spec => []TypeOK
  <1>1. Init => TypeOK  BY Types
  <1>2. TypeOK /\ [Next]_vars => TypeOK'  BY Types
  <1>. QED  BY <1>1, <1>2, PTL DEF Spec

-----------------------------------------------------------------------------
(* Restore before save, when rescans keep the games being played *)

\* The catalog has the game of every open page; a page that is not open yet
\* has asked for nothing; a 404 that an open page can still receive was given
\* when there was no file.
Listed    == \A p \in Pages : page[p] = "open" => listed
Untouched == \A c \in Calls : page[c[1]] = "new" => calls[c].at = "unsent"
Truthful  == \A c \in Calls :
                page[c[1]] = "open" /\ calls[c].at = "absent" => calls[c].was = None

IInv == TypeOK /\ Listed /\ Untouched /\ Truthful /\ RestoreBeforeSave

LEMMA InitInv == Init => IInv
  <1>. SUFFICES ASSUME Init  PROVE IInv  OBVIOUS
  <1>. USE DEF Init
  <1>1. TypeOK  BY Types
  <1>2. \A c \in Calls : c[1] \in Pages  BY DEF Calls
  <1>3. Listed /\ Untouched /\ Truthful  BY <1>2 DEF Listed, Untouched, Truthful
  <1>4. RestoreBeforeSave  BY DEF RestoreBeforeSave
  <1>. QED  BY <1>1, <1>3, <1>4 DEF IInv

LEMMA PageInv ==
  ASSUME IInv, NEW p \in Pages, PageStep(p)
  PROVE  Listed' /\ Untouched' /\ Truthful' /\ RestoreBeforeSave'
  <1>. USE DEF IInv, TypeOK, Listed, Untouched, Truthful, RestoreBeforeSave
  <1>. \A c \in Calls : c[1] \in Pages  BY DEF Calls
  <1>1. CASE Open(p)
    <2>1. Listed' /\ Untouched' /\ RestoreBeforeSave'  BY <1>1 DEF Open
    <2>2. Truthful'  BY <1>1 DEF Open
    <2>. QED  BY <2>1, <2>2
  <1>2. CASE Close(p)  BY <1>2 DEF Close
  <1>3. CASE Play(p)
    <2>1. Listed' /\ Untouched' /\ Truthful'  BY <1>3 DEF Play
    <2>2. ASSUME NEW q \in Pages, handlers'[q] > 0  PROVE Covers(sram'[q], base'[q])
      <3>1. Covers(sram[q], base[q]) /\ sram[q] \in Data  BY <1>3, <2>2 DEF Play
      <3>2. CASE q = p
        <4>1. sram'[p] = [sram[p] EXCEPT ![p] = @ + 1] /\ base' = base
          BY <1>3 DEF Play
        <4>2. sram[p][p] < MaxProgress  BY <1>3 DEF Play
        <4>3. sram[p] \in Data /\ Covers(sram[p], base[p])  BY <3>1, <3>2
        <4>4. Covers([sram[p] EXCEPT ![p] = @ + 1], base[p])
          BY <4>2, <4>3, CoversGrows
        <4>. QED  BY <3>2, <4>1, <4>4
      <3>3. CASE q # p
        <4>1. sram'[q] = sram[q] /\ base' = base  BY <1>3, <3>3 DEF Play
        <4>. QED  BY <3>1, <4>1
      <3>. QED  BY <3>2, <3>3
    <2>. QED  BY <2>1, <2>2
  <1>4. CASE Tick(p)  BY <1>4 DEF Tick
  <1>. QED  BY <1>1, <1>2, <1>3, <1>4 DEF PageStep

LEMMA CallInv ==
  ASSUME IInv, NEW c \in Calls, CallStep(c)
  PROVE  Listed' /\ Untouched' /\ Truthful' /\ RestoreBeforeSave'
  <1>. DEFINE p == c[1]
  <1>. p \in Pages  BY DEF Calls
  <1>1. UNCHANGED <<file, listed, page, posts, sent>> /\ Listed'
    BY DEF CallStep, OnGameStart, Restore, StartAfresh, Refuse, GateGet,
           ServeGet, LoseCall, IInv, Listed
  <1>2. \A b \in Calls : b # c => calls'[b] = calls[b]
    BY DEF CallStep, OnGameStart, Restore, StartAfresh, Refuse, GateGet,
           ServeGet, LoseCall, CallAt, IInv, TypeOK
  <1>3. Untouched'
    <2>1. page[p] = "new" => calls[c].at = "unsent"  BY DEF IInv, Untouched
    <2>2. page[p] # "new"
      BY <2>1 DEF CallStep, OnGameStart, Restore, StartAfresh, Refuse, GateGet,
                  ServeGet, LoseCall, CallAt
    <2>. QED  BY <1>1, <1>2, <2>2 DEF IInv, Untouched
  <1>4. Truthful'
    <2>1. ASSUME page[p] = "open", calls'[c].at = "absent"
          PROVE  calls'[c].was = None
      <3>1. listed  BY <2>1 DEF IInv, Listed
      <3>. USE DEF IInv, TypeOK, CallAt
      <3>2. CASE ServeGet(c)  BY <2>1, <3>2 DEF ServeGet
      <3>3. CASE GateGet(c)  BY <2>1, <3>1, <3>3 DEF GateGet
      <3>. QED
        BY <2>1, <3>2, <3>3 DEF CallStep, OnGameStart, Restore, StartAfresh,
                                Refuse, LoseCall
    <2>. QED  BY <1>1, <1>2, <2>1 DEF IInv, Truthful
  <1>5. RestoreBeforeSave'
    <2>. USE DEF IInv, TypeOK, RestoreBeforeSave
    <2>1. CASE Restore(c)
      <3>1. PICK d \in Data : d = calls[c].was  BY <2>1 DEF Restore, CallAt
      <3>2. Covers(d, d)
        <4>1. \A s \in Sessions : d[s] <= d[s]  BY SavesAssumption DEF Data
        <4>. QED  BY <4>1 DEF Covers
      <3>. QED  BY <2>1, <3>1, <3>2 DEF Restore, Register
    <2>2. CASE StartAfresh(c)
      <3>1. calls[c].was = None  BY <2>2 DEF StartAfresh, CallAt, Truthful
      <3>2. Covers(sram[p], None)  BY ContentAssumption DEF Covers
      <3>3. handlers[p] = 0 \/ Covers(sram[p], base[p])  OBVIOUS
      <3>. QED  BY <2>2, <3>1, <3>2, <3>3 DEF StartAfresh, Register
    <2>3. CASE UNCHANGED <<sram, handlers, base>>  BY <2>3
    <2>. QED
      BY <2>1, <2>2, <2>3 DEF CallStep, OnGameStart, Refuse, GateGet, ServeGet,
                              LoseCall
  <1>. QED  BY <1>1, <1>3, <1>4, <1>5

LEMMA StepInv ==
  ASSUME ~UnlistsPlayed, IInv, [Next]_vars
  PROVE  IInv'
  <1>1. TypeOK'  BY Types DEF IInv
  <1>2. Listed' /\ Untouched' /\ Truthful' /\ RestoreBeforeSave'
    <2>1. CASE \E p \in Pages : PageStep(p)  BY <2>1, PageInv
    <2>2. CASE \E c \in Calls : CallStep(c)  BY <2>2, CallInv
    <2>. USE DEF IInv, Listed, Untouched, Truthful, RestoreBeforeSave
    <2>3. CASE \E m \in posts : PostStep(m)
      BY <2>3 DEF PostStep, GatePost, Put, PutFails, LosePost
    <2>4. CASE Rescan  BY <2>4 DEF Rescan
    <2>5. CASE Restart
      <3>1. \A c \in Calls : \/ calls'[c] = calls[c]
                             \/ /\ calls[c].at = "admitted"
                                /\ calls'[c].at = "failed"
        BY <2>5 DEF Restart, TypeOK
      <3>. QED  BY <2>5, <3>1 DEF Restart
    <2>6. CASE UNCHANGED vars  BY <2>6 DEF vars
    <2>. QED  BY <2>1, <2>2, <2>3, <2>4, <2>5, <2>6 DEF Next
  <1>. QED  BY <1>1, <1>2 DEF IInv

\* No page posts over a save it did not restore, for any number of pages open
\* at once, as long as rescans keep the games being played in the catalog.
THEOREM RestoredBeforeSaved ==
  ASSUME ~UnlistsPlayed
  PROVE  Spec => []RestoreBeforeSave
  <1>1. Init => IInv  BY InitInv
  <1>2. IInv /\ [Next]_vars => IInv'  BY StepInv
  <1>3. IInv => RestoreBeforeSave  BY DEF IInv
  <1>. QED  BY <1>1, <1>2, <1>3, PTL DEF Spec
-----------------------------------------------------------------------------
(* What was there when all was quiet *)

LEMMA CoversItself == ASSUME NEW d \in Data \union {None}  PROVE Covers(d, d)
  <1>1. CASE d \in Data
    <2>1. \A s \in Sessions : d[s] <= d[s]  BY <1>1, SavesAssumption DEF Data
    <2>. QED  BY <1>1, <2>1 DEF Covers
  <1>2. CASE d = None  BY <1>2, ContentAssumption DEF Covers
  <1>. QED  BY <1>1, <1>2

\* A new page has no listener.  Every save that an open page was answered with
\* or may post, and every post on its way, covers what the file held when all
\* was quiet, and so does the file.
NoListener == \A p \in Pages : page[p] = "new" => handlers[p] = 0
Answers    == \A c \in Calls : page[c[1]] = "open" /\ calls[c].at \in {"ok", "absent"} =>
                  Covers(calls[c].was, kept)
Held       == \A p \in Pages : page[p] = "open" /\ handlers[p] > 0 => Covers(sram[p], kept)
Posted     == \A m \in posts : Covers(m.data, kept)

KeptInv == IInv /\ NoListener /\ Answers /\ Held /\ Posted /\ ProgressKept

LEMMA KeptInit == Init => KeptInv
  <1>. SUFFICES ASSUME Init  PROVE KeptInv  OBVIOUS
  <1>1. IInv  BY InitInv
  <1>2. NoListener /\ Held /\ Posted  BY DEF Init, NoListener, Held, Posted
  <1>3. Answers
    <2>1. \A c \in Calls : calls[c].at = "unsent"  BY DEF Init
    <2>. QED  BY <2>1 DEF Answers
  <1>4. ProgressKept
    <2>1. kept = file /\ file \in Data \union {None}  BY <1>1 DEF Init, IInv, TypeOK
    <2>. QED  BY <2>1, CoversItself DEF ProgressKept
  <1>. QED  BY <1>1, <1>2, <1>3, <1>4 DEF KeptInv

LEMMA KeptPage ==
  ASSUME KeptInv, IInv', NEW p \in Pages, PageStep(p)
  PROVE  KeptInv'
  <1>. USE DEF KeptInv
  <1>t. TypeOK  BY DEF IInv
  <1>0. \A c \in Calls : c[1] \in Pages  BY DEF Calls
  <1>1. CASE Open(p)
    <2>1. /\ page[p] = "new" /\ page' = [page EXCEPT ![p] = "open"]
          /\ UNCHANGED <<file, sram, handlers, calls, posts>>
          /\ kept' = IF posts = {} /\ \A q \in Pages : page[q] # "open" THEN file ELSE kept
      BY <1>1 DEF Open
    <2>2. handlers[p] = 0  BY <2>1 DEF NoListener
    <2>3. \A c \in Calls : c[1] = p => calls[c].at = "unsent"
      BY <2>1 DEF IInv, Untouched
    <2>4. NoListener'  BY <1>t, <2>1 DEF NoListener, TypeOK
    <2>5. CASE posts = {} /\ \A q \in Pages : page[q] # "open"
      <3>1. kept' = file /\ \A q \in Pages : page'[q] = "open" => q = p
        BY <1>t, <2>1, <2>5 DEF TypeOK
      <3>2. Answers'  BY <1>0, <2>1, <2>3, <3>1 DEF Answers
      <3>3. Held'  BY <2>1, <2>2, <3>1 DEF Held
      <3>4. Posted'  BY <2>1, <2>5 DEF Posted
      <3>5. ProgressKept'  BY <1>t, <2>1, <3>1, CoversItself DEF ProgressKept, TypeOK
      <3>. QED  BY <2>4, <3>2, <3>3, <3>4, <3>5
    <2>6. CASE ~(posts = {} /\ \A q \in Pages : page[q] # "open")
      <3>1. kept' = kept /\ \A q \in Pages : page'[q] = "open" => q = p \/ page[q] = "open"
        BY <1>t, <2>1, <2>6 DEF TypeOK
      <3>2. Answers'  BY <1>0, <2>1, <2>3, <3>1 DEF Answers
      <3>3. Held'  BY <2>1, <2>2, <3>1 DEF Held
      <3>4. Posted' /\ ProgressKept'  BY <2>1, <3>1 DEF Posted, ProgressKept
      <3>. QED  BY <2>4, <3>2, <3>3, <3>4
    <2>. QED  BY <2>5, <2>6
  <1>2. CASE Close(p)
    <2>1. /\ UNCHANGED <<file, sram, handlers, calls, posts, kept>>
          /\ page' = [page EXCEPT ![p] = "closed"]
      BY <1>2 DEF Close
    <2>2. \A q \in Pages : /\ page'[q] = "open" => page[q] = "open"
                           /\ page'[q] = "new" => page[q] = "new"
      BY <1>t, <2>1 DEF TypeOK
    <2>3. NoListener' /\ Held' /\ Posted' /\ ProgressKept'
      BY <2>1, <2>2 DEF NoListener, Held, Posted, ProgressKept
    <2>4. Answers'  BY <1>0, <2>1, <2>2 DEF Answers
    <2>. QED  BY <2>3, <2>4
  <1>3. CASE Play(p)
    <2>1. /\ sram' = [sram EXCEPT ![p] = [sram[p] EXCEPT ![p] = @ + 1]]
          /\ sram[p][p] < MaxProgress
          /\ UNCHANGED <<file, page, handlers, calls, posts, kept>>
      BY <1>3 DEF Play
    <2>2. NoListener' /\ Answers' /\ Posted' /\ ProgressKept'
      BY <2>1 DEF NoListener, Answers, Posted, ProgressKept
    <2>3. ASSUME NEW q \in Pages, page[q] = "open", handlers[q] > 0
          PROVE  Covers(sram'[q], kept)
      <3>1. Covers(sram[q], kept) /\ sram[q] \in Data  BY <1>t, <2>3 DEF Held, TypeOK
      <3>2. CASE q = p
        <4>1. Covers([sram[p] EXCEPT ![p] = @ + 1], kept)
          BY <2>1, <3>1, <3>2, CoversGrows
        <4>. QED  BY <1>t, <2>1, <3>2, <4>1 DEF TypeOK
      <3>3. CASE q # p  BY <1>t, <2>1, <3>1, <3>3 DEF TypeOK
      <3>. QED  BY <3>2, <3>3
    <2>4. Held'  BY <2>1, <2>3 DEF Held
    <2>. QED  BY <2>2, <2>4
  <1>4. CASE Tick(p)
    <2>1. /\ page[p] = "open" /\ handlers[p] > 0
          /\ UNCHANGED <<file, page, sram, handlers, calls, kept>>
      BY <1>4 DEF Tick
    <2>2. PICK m : m.data = sram[p] /\ posts' = posts \union {m}
      BY <1>4 DEF Tick, PostSave
    <2>3. NoListener' /\ Answers' /\ Held' /\ ProgressKept'
      BY <2>1 DEF NoListener, Answers, Held, ProgressKept
    <2>4. Posted'  BY <2>1, <2>2 DEF Held, Posted
    <2>. QED  BY <2>3, <2>4
  <1>. QED  BY <1>1, <1>2, <1>3, <1>4 DEF PageStep

LEMMA KeptCall ==
  ASSUME ~UnlistsPlayed, KeptInv, IInv', NEW c \in Calls, CallStep(c)
  PROVE  KeptInv'
  <1>. DEFINE p == c[1]
  <1>. USE DEF KeptInv
  <1>t. TypeOK  BY DEF IInv
  <1>0. \A b \in Calls : b[1] \in Pages  BY DEF Calls
  <1>1. UNCHANGED <<file, listed, page, posts, kept>>
    BY DEF CallStep, OnGameStart, Restore, StartAfresh, Refuse, GateGet, ServeGet, LoseCall
  <1>2. \A b \in Calls : b # c => calls'[b] = calls[b]
    BY <1>t DEF CallStep, OnGameStart, Restore, StartAfresh, Refuse, GateGet,
                ServeGet, LoseCall, CallAt, TypeOK
  <1>3. Posted' /\ ProgressKept'  BY <1>1 DEF Posted, ProgressKept
  <1>4. Answers'
    <2>1. ASSUME page[p] = "open", calls'[c].at \in {"ok", "absent"}
          PROVE  Covers(calls'[c].was, kept)
      <3>1. listed  BY <1>0, <2>1 DEF IInv, Listed
      <3>2. CASE GateGet(c)  BY <1>t, <2>1, <3>1, <3>2 DEF GateGet, CallAt, TypeOK
      <3>3. CASE ServeGet(c)
        <4>1. calls'[c].was = file  BY <1>t, <3>3 DEF ServeGet, TypeOK
        <4>. QED  BY <4>1 DEF ProgressKept
      <3>4. CASE ~GateGet(c) /\ ~ServeGet(c)
        BY <1>t, <2>1, <3>4 DEF CallStep, OnGameStart, Restore, StartAfresh, Refuse,
                                LoseCall, CallAt, TypeOK
      <3>. QED  BY <3>2, <3>3, <3>4
    <2>. QED  BY <1>1, <1>2, <2>1 DEF Answers
  <1>5. CASE Restore(c) \/ StartAfresh(c)
    <2>1. page[p] = "open" /\ Covers(calls[c].was, kept)
      BY <1>5 DEF Restore, StartAfresh, CallAt, Answers
    <2>2. handlers' = [handlers EXCEPT ![p] = 1]
      BY <1>5 DEF Restore, StartAfresh, Register
    <2>3. Covers(sram'[p], kept) /\ \A q \in Pages : q # p => sram'[q] = sram[q]
      <3>1. CASE Restore(c)
        <4>1. sram' = [sram EXCEPT ![p] = calls[c].was]  BY <3>1 DEF Restore
        <4>. QED  BY <1>t, <1>0, <2>1, <4>1 DEF TypeOK
      <3>2. CASE StartAfresh(c)
        <4>1. calls[c].was = None /\ sram' = sram
          BY <2>1, <3>2 DEF StartAfresh, CallAt, IInv, Truthful
        <4>2. kept \notin Data  BY <2>1, <4>1, ContentAssumption DEF Covers
        <4>. QED  BY <4>1, <4>2 DEF Covers
      <3>. QED  BY <1>5, <3>1, <3>2
    <2>4. NoListener'  BY <1>t, <1>0, <1>1, <2>1, <2>2 DEF NoListener, TypeOK
    <2>5. Held'  BY <1>t, <1>0, <1>1, <2>2, <2>3 DEF Held, TypeOK
    <2>. QED  BY <1>3, <1>4, <2>4, <2>5
  <1>6. CASE UNCHANGED <<sram, handlers>>
    <2>1. NoListener' /\ Held'  BY <1>1, <1>6 DEF NoListener, Held
    <2>. QED  BY <1>3, <1>4, <2>1
  <1>. QED
    BY <1>5, <1>6 DEF CallStep, OnGameStart, Refuse, GateGet, ServeGet, LoseCall

LEMMA KeptPost ==
  ASSUME KeptInv, IInv', NEW m \in posts, PostStep(m)
  PROVE  KeptInv'
  <1>. USE DEF KeptInv
  <1>1. UNCHANGED <<page, sram, handlers, calls, kept>>
    BY DEF PostStep, GatePost, Put, PutFails, LosePost
  <1>2. NoListener' /\ Answers' /\ Held'  BY <1>1 DEF NoListener, Answers, Held
  <1>3. \A n \in posts' : \E o \in posts : n.data = o.data
    <2>1. [m EXCEPT !.at = "admitted"].data = m.data  BY DEF IInv, TypeOK, Posts
    <2>. QED  BY <2>1 DEF PostStep, GatePost, Put, PutFails, LosePost
  <1>4. Posted'  BY <1>1, <1>3 DEF Posted
  <1>5. file' \in {file, m.data}  BY DEF PostStep, GatePost, Put, PutFails, LosePost
  <1>6. ProgressKept'  BY <1>1, <1>5 DEF Posted, ProgressKept
  <1>. QED  BY <1>2, <1>4, <1>6

LEMMA KeptStep ==
  ASSUME ~UnlistsPlayed, KeptInv, [Next]_vars
  PROVE  KeptInv'
  <1>1. IInv'  BY StepInv DEF KeptInv
  <1>2. CASE \E p \in Pages : PageStep(p)  BY <1>1, <1>2, KeptPage
  <1>3. CASE \E c \in Calls : CallStep(c)  BY <1>1, <1>3, KeptCall
  <1>4. CASE \E m \in posts : PostStep(m)  BY <1>1, <1>4, KeptPost
  <1>. USE DEF KeptInv, NoListener, Answers, Held, Posted, ProgressKept
  <1>5. CASE Rescan  BY <1>1, <1>5 DEF Rescan
  <1>6. CASE Restart
    <2>1. \A c \in Calls : calls'[c] = calls[c] \/ calls'[c].at = "failed"
      BY <1>6 DEF Restart, IInv, TypeOK
    <2>2. posts' \subseteq posts /\ UNCHANGED <<file, page, sram, handlers, kept>>
      BY <1>6 DEF Restart
    <2>. QED  BY <1>1, <2>1, <2>2
  <1>7. CASE UNCHANGED vars  BY <1>1, <1>7 DEF vars
  <1>. QED  BY <1>2, <1>3, <1>4, <1>5, <1>6, <1>7 DEF Next

\* However many pages are open at once, and however late their posts land: what
\* the file held when a page was opened with no other open and no post on its
\* way is never taken out of it again, if rescans keep the game being played.
\* A page answered later holds at least that, and so does all that it posts.
THEOREM QuietIsKept ==
  ASSUME ~UnlistsPlayed
  PROVE  Spec => []ProgressKept
  <1>1. Init => KeptInv  BY KeptInit
  <1>2. KeptInv /\ [Next]_vars => KeptInv'  BY KeptStep
  <1>3. KeptInv => ProgressKept  BY DEF KeptInv
  <1>. QED  BY <1>1, <1>2, <1>3, PTL DEF Spec

-----------------------------------------------------------------------------
(* The past, with any number of pages open at once *)

\* How far session s has got in a save.
Progress(d, s) == IF d = None THEN 0 ELSE d[s]

\* A save with the progress of the past sessions that the file has.
SamePast(d) == Progress(d, Past) = Progress(file, Past)

\* Everything a page may still post has it, once the page may post at all.
PastInv ==
    /\ IInv
    /\ \A p \in Pages : handlers[p] = 0 => sram[p][Past] = 0
    /\ \A p \in Pages : handlers[p] > 0 => SamePast(sram[p])
    /\ \A c \in Calls : page[c[1]] = "open" /\ calls[c].at \in {"ok", "absent"} =>
          SamePast(calls[c].was)
    /\ \A m \in posts : SamePast(m.data)

LEMMA PastInit == Init => PastInv
  <1> SUFFICES ASSUME Init  PROVE PastInv  OBVIOUS
  <1> USE DEF Init
  <1>1. IInv  BY InitInv
  <1>2. Fresh[Past] = 0  BY DEF Fresh, Sessions
  <1>3. \A c \in Calls : calls[c].at = "unsent"  OBVIOUS
  <1> QED  BY <1>1, <1>2, <1>3 DEF PastInv

LEMMA PastPage ==
  ASSUME PastInv, IInv', NEW p \in Pages, PageStep(p)
  PROVE  PastInv'
  <1> USE DEF PastInv, IInv, TypeOK
  <1>1. UNCHANGED <<file, handlers, calls>> /\ IInv'
    BY DEF PageStep, Open, Close, Play, Tick
  <1>2. \A c \in Calls : page'[c[1]] = "open" /\ calls[c].at \in {"ok", "absent"} =>
           page[c[1]] = "open"
    BY DEF PageStep, Open, Close, Play, Tick, Untouched, Calls
  <1>3. \A q \in Pages : sram'[q][Past] = sram[q][Past]
    <2>1. CASE Play(p)
      <3>1. sram' = [sram EXCEPT ![p][p] = @ + 1] /\ p # Past
        BY <2>1, SavesAssumption DEF Play
      <3>2. sram \in [Pages -> [Sessions -> 0 .. MaxProgress]]  BY DEF Data
      <3> QED  BY <3>1, <3>2
    <2>2. CASE UNCHANGED sram  BY <2>2
    <2> QED  BY <2>1, <2>2 DEF PageStep, Open, Close, Tick
  <1>4. \A q \in Pages : sram[q] # None /\ sram'[q] # None
    BY <1>1, ContentAssumption
  <1>5. \A m \in posts' : m \in posts \/ \E q \in Pages : handlers[q] > 0 /\ m.data = sram[q]
    BY DEF PageStep, Open, Close, Play, Tick, PostSave
  <1> QED  BY <1>1, <1>2, <1>3, <1>4, <1>5 DEF SamePast, Progress

LEMMA PastCall ==
  ASSUME ~UnlistsPlayed, PastInv, IInv', NEW c \in Calls, CallStep(c)
  PROVE  PastInv'
  <1> DEFINE p == c[1]
  <1> USE DEF PastInv, IInv, TypeOK
  <1>0. p \in Pages  BY DEF Calls
  <1>1. UNCHANGED <<file, page, posts>>
    BY DEF CallStep, OnGameStart, Restore, StartAfresh, Refuse, GateGet, ServeGet, LoseCall
  <1>2. \A b \in Calls : b # c => calls'[b] = calls[b]
    BY DEF CallStep, OnGameStart, Restore, StartAfresh, Refuse, GateGet,
           ServeGet, LoseCall, CallAt
  <1>3. ASSUME page[p] = "open", calls'[c].at \in {"ok", "absent"}
        PROVE  SamePast(calls'[c].was)
    <2>1. CASE GateGet(c)  BY <1>0, <1>3, <2>1 DEF GateGet, CallAt, Listed
    <2>2. CASE ServeGet(c)  BY <2>2 DEF ServeGet, SamePast
    <2>3. CASE ~GateGet(c) /\ ~ServeGet(c)
      BY <1>3, <2>3 DEF CallStep, OnGameStart, Restore, StartAfresh, Refuse, LoseCall, CallAt
    <2> QED  BY <2>1, <2>2, <2>3
  <1>4. \A b \in Calls : page'[b[1]] = "open" /\ calls'[b].at \in {"ok", "absent"} =>
           SamePast(calls'[b].was)
    BY <1>1, <1>2, <1>3
  <1>5. \A d : SamePast(d)' <=> Progress(d', Past) = Progress(file, Past)
    BY <1>1 DEF SamePast, Progress
  <1>6. /\ \A q \in Pages : handlers'[q] = 0 => sram'[q][Past] = 0
        /\ \A q \in Pages : handlers'[q] > 0 => SamePast(sram'[q])
    <2>1. CASE Restore(c)
      <3>1. SamePast(calls[c].was)  BY <2>1 DEF Restore, CallAt
      <3>2. /\ sram' = [sram EXCEPT ![p] = calls[c].was]
            /\ handlers' = [handlers EXCEPT ![p] = 1]
        BY <2>1 DEF Restore, Register
      <3> QED  BY <1>0, <3>1, <3>2
    <2>2. CASE StartAfresh(c)
      <3>1. SamePast(calls[c].was) /\ calls[c].was = None
        BY <2>2 DEF StartAfresh, CallAt, Truthful
      <3>2. sram' = sram /\ handlers' = [handlers EXCEPT ![p] = 1]
        BY <2>2 DEF StartAfresh, Register
      <3>3. handlers[p] \in {0, 1} /\ sram[p] # None  BY <1>0, ContentAssumption
      <3>4. SamePast(sram[p])  BY <1>0, <3>1, <3>3 DEF SamePast, Progress
      <3> QED  BY <1>0, <3>2, <3>4
    <2>3. CASE UNCHANGED <<sram, handlers>>  BY <2>3
    <2> QED
      BY <2>1, <2>2, <2>3 DEF CallStep, OnGameStart, Refuse, GateGet, ServeGet, LoseCall
  <1>7. file' = file /\ posts' = posts /\ IInv'  BY <1>1
  <1> QED  BY <1>4, <1>6, <1>7 DEF SamePast

LEMMA PastPost ==
  ASSUME PastInv, IInv', NEW m \in posts, PostStep(m)
  PROVE  PastInv'
  <1> USE DEF PastInv
  <1>1. UNCHANGED <<page, sram, handlers, calls>> /\ IInv'
    BY DEF PostStep, GatePost, Put, PutFails, LosePost
  <1>2. Progress(file', Past) = Progress(file, Past)
    BY DEF PostStep, GatePost, Put, PutFails, LosePost, SamePast
  <1>3. \A n \in posts' : \E o \in posts : n.data = o.data
    <2>1. [m EXCEPT !.at = "admitted"].data = m.data  BY DEF IInv, TypeOK, Posts
    <2> QED  BY <2>1 DEF PostStep, GatePost, Put, PutFails, LosePost
  <1> QED  BY <1>1, <1>2, <1>3 DEF SamePast

LEMMA PastStep ==
  ASSUME ~UnlistsPlayed, PastInv, [Next]_vars
  PROVE  PastInv'
  <1>1. IInv'  BY StepInv DEF PastInv
  <1>2. CASE \E p \in Pages : PageStep(p)  BY <1>1, <1>2, PastPage
  <1>3. CASE \E c \in Calls : CallStep(c)  BY <1>1, <1>3, PastCall
  <1>4. CASE \E m \in posts : PostStep(m)  BY <1>1, <1>4, PastPost
  <1>5. CASE Rescan  BY <1>1, <1>5 DEF Rescan, PastInv, SamePast
  <1>6. CASE Restart
    <2>1. \A c \in Calls : calls'[c] = calls[c] \/ calls'[c].at = "failed"
      BY <1>6 DEF Restart, PastInv, IInv, TypeOK
    <2>2. posts' \subseteq posts /\ UNCHANGED <<file, page, sram, handlers>>
      BY <1>6 DEF Restart
    <2> QED  BY <1>1, <2>1, <2>2 DEF PastInv, SamePast
  <1>7. CASE UNCHANGED vars  BY <1>1, <1>7 DEF vars, PastInv, SamePast
  <1> QED  BY <1>2, <1>3, <1>4, <1>5, <1>6, <1>7 DEF Next

\* What the comment in play.js says of a 404 is true as long as rescans keep
\* the games being played: no post that the server lets in undoes what the
\* sessions of the past left, however many pages are open at once.
THEOREM PastIsKept ==
  ASSUME ~UnlistsPlayed
  PROVE  Spec => []PastKept
  <1>1. Init => PastInv  BY PastInit
  <1>2. PastInv /\ [Next]_vars => PastInv'  BY PastStep
  <1>3. ASSUME PastInv  PROVE PastKept
    <2> SUFFICES ASSUME NEW m \in posts, file \in Data  PROVE m.data[Past] >= file[Past]
      BY DEF PastKept
    <2>1. m.data \in Data /\ SamePast(m.data)
      BY <1>3 DEF PastInv, IInv, TypeOK, Posts
    <2>2. m.data[Past] = file[Past]  BY <2>1, ContentAssumption DEF SamePast, Progress
    <2>3. file[Past] \in Nat  BY SavesAssumption DEF Data, Sessions
    <2> QED  BY <2>2, <2>3
  <1> QED  BY <1>1, <1>2, <1>3, PTL DEF Spec
=============================================================================
