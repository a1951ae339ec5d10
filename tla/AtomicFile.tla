----------------------------- MODULE AtomicFile -----------------------------
(***************************************************************************)
(* internal/atomicfile: calls of Write that target one path, on a file     *)
(* system that may lose power.  Every call fills a temporary file of its   *)
(* own, fsyncs it and renames it over the target; nothing serializes the   *)
(* calls.                                                                  *)
(*                                                                         *)
(* A file's bytes and a directory's entries reach stable storage           *)
(* separately: Sync flushes the bytes of the temporary file, and nothing   *)
(* in the code flushes the directory, so the renamed entry becomes durable *)
(* whenever the file system gets to it (Writeback).                        *)
(*                                                                         *)
(* A call is named by its writer, and so is the file it creates: target = w*)
(* says that the path's entry points at the file writer w made.            *)
(***************************************************************************)
CONSTANTS Writer,  \* calls of Write on this path
          None,    \* no entry under the target's name
          Torn     \* what a read returns of a file cut short

ASSUME AtomicFileAssumption ==
    /\ None \notin Writer
    /\ Torn \notin Writer
    /\ None # Torn

VARIABLES
    pc,       \* where each call is
    bytes,    \* the bytes of the file each call made, as a reader sees them
    synced,   \* files whose bytes are on stable storage
    temps,    \* calls whose .tmp-* name is in the directory
    target,   \* the file the target's entry points at
    durable,  \* the file the target's entry points at on stable storage
    renamed,  \* history: the calls that renamed their file over the target
    stuck     \* history: the calls whose .tmp-* name is no longer the code's to
              \* remove: the removal failed, or a power loss left it behind

vars == <<pc, bytes, synced, temps, target, durable, renamed, stuck>>

\* "open" .. "renamed" are inside Write, "lost" ended with the process.
InFlight == {"open", "filled", "flushed", "closed", "renamed"}
Returned == {"ok", "error"}
Places   == {"start", "lost"} \union InFlight \union Returned

TypeOK ==
    /\ pc \in [Writer -> Places]
    /\ bytes \in [Writer -> {"none", "partial", "whole"}]
    /\ synced \subseteq {w \in Writer : bytes[w] = "whole"}
    /\ temps \subseteq Writer
    /\ target \in Writer \union {None}
    /\ durable \in Writer \union {None}
    /\ renamed \subseteq Writer
    /\ stuck \subseteq Writer

Init ==
    /\ pc = [w \in Writer |-> "start"]
    /\ bytes = [w \in Writer |-> "none"]
    /\ synced = {}
    /\ temps = {}
    /\ target = None
    /\ durable = None
    /\ renamed = {}
    /\ stuck = {}

-----------------------------------------------------------------------------
(* Write, step by step *)

Goto(w, from, to) ==
    /\ pc[w] = from
    /\ pc' = [pc EXCEPT ![w] = to]

\* os.MkdirAll and os.CreateTemp succeed.
CreateTemp(w) ==
    /\ Goto(w, "start", "open")
    /\ temps' = temps \union {w}
    /\ bytes' = [bytes EXCEPT ![w] = "partial"]
    /\ UNCHANGED <<synced, target, durable, renamed, stuck>>

\* One of the two fails: nothing was created.
CreateFails(w) ==
    /\ Goto(w, "start", "error")
    /\ UNCHANGED <<bytes, synced, temps, target, durable, renamed, stuck>>

\* fn wrote everything and returned nil; until then a reader of the
\* temporary file would see a part of it.
Fill(w) ==
    /\ Goto(w, "open", "filled")
    /\ bytes' = [bytes EXCEPT ![w] = "whole"]
    /\ UNCHANGED <<synced, temps, target, durable, renamed, stuck>>

\* Mutant of Sync: the order of fn and Sync is swapped.
SyncEarly(w) ==
    /\ pc[w] \in {"open", "filled"}
    /\ pc' = [pc EXCEPT ![w] = IF pc[w] = "open" THEN "open" ELSE "flushed"]
    /\ synced' = synced \union {w}
    /\ UNCHANGED <<bytes, temps, target, durable, renamed, stuck>>

Sync(w) ==
    /\ Goto(w, "filled", "flushed")
    /\ synced' = synced \union {w}
    /\ UNCHANGED <<bytes, temps, target, durable, renamed, stuck>>

Close(w) ==
    /\ Goto(w, "flushed", "closed")
    /\ UNCHANGED <<bytes, synced, temps, target, durable, renamed, stuck>>

\* Mutant of Rename: the rename no longer waits for the fsync.
RenameUnsynced(w) ==
    /\ pc[w] \in {"filled", "closed"}
    /\ pc' = [pc EXCEPT ![w] = "renamed"]
    /\ target' = w
    /\ temps' = temps \ {w}
    /\ renamed' = renamed \union {w}
    /\ UNCHANGED <<bytes, synced, durable, stuck>>

\* os.Rename succeeds: one step replaces the target's entry.
Rename(w) ==
    /\ Goto(w, "closed", "renamed")
    /\ target' = w
    /\ temps' = temps \ {w}
    /\ renamed' = renamed \union {w}
    /\ UNCHANGED <<bytes, synced, durable, stuck>>

\* committed = true; return nil.
Return(w) ==
    /\ Goto(w, "renamed", "ok")
    /\ UNCHANGED <<bytes, synced, temps, target, durable, renamed, stuck>>

\* Mutant of Abort: committed is set before os.Rename, so a failed rename
\* skips the cleanup.
AbortCommitted(w) ==
    /\ pc[w] \in {"open", "filled", "flushed", "closed"}
    /\ pc' = [pc EXCEPT ![w] = "error"]
    /\ IF pc[w] = "closed"
          THEN UNCHANGED <<temps, stuck>>
          ELSE \/ temps' = temps \ {w} /\ UNCHANGED stuck
               \/ stuck' = stuck \union {w} /\ UNCHANGED temps
    /\ UNCHANGED <<bytes, synced, target, durable, renamed>>

\* Mutant of Abort: an error found after the rename is still reported.
AbortLate(w) ==
    /\ pc[w] \in InFlight
    /\ pc' = [pc EXCEPT ![w] = "error"]
    /\ \/ temps' = temps \ {w} /\ UNCHANGED stuck
       \/ stuck' = stuck \union {w} /\ UNCHANGED temps
    /\ UNCHANGED <<bytes, synced, target, durable, renamed>>

\* fn, Sync, Close or Rename returned an error (or fn panicked): the
\* deferred cleanup closes and removes the temporary file, and ignores the
\* error of a removal that fails.
Abort(w) ==
    /\ pc[w] \in {"open", "filled", "flushed", "closed"}
    /\ pc' = [pc EXCEPT ![w] = "error"]
    /\ \/ temps' = temps \ {w} /\ UNCHANGED stuck
       \/ stuck' = stuck \union {w} /\ UNCHANGED temps
    /\ UNCHANGED <<bytes, synced, target, durable, renamed>>

-----------------------------------------------------------------------------
(* The environment *)

\* The file system commits the directory on its own schedule.
Writeback ==
    /\ durable # target
    /\ durable' = target
    /\ UNCHANGED <<pc, bytes, synced, temps, target, renamed, stuck>>

LoseCalls ==
    pc' = [w \in Writer |-> IF pc[w] \in InFlight THEN "lost" ELSE pc[w]]

\* The process dies: no deferred function runs, the kernel's view survives.
ProcessCrash ==
    /\ \E w \in Writer : pc[w] \in InFlight
    /\ LoseCalls
    /\ UNCHANGED <<bytes, synced, temps, target, durable, renamed, stuck>>

\* The machine dies: the directory is what stable storage holds of it, and
\* a file that was not fsynced may come back cut short.  Creations, renames
\* and removals of .tmp-* names that had not been written back are undone.
PowerLoss ==
    /\ LoseCalls
    /\ target' = durable
    /\ \E cut \in SUBSET (Writer \ synced) :
         bytes' = [w \in Writer |->
                     IF w \in cut /\ bytes[w] = "whole" THEN "partial" ELSE bytes[w]]
    /\ temps' \in SUBSET ({w \in Writer : bytes[w] # "none"} \ {durable})
    /\ stuck' = stuck \union temps'
    /\ UNCHANGED <<synced, durable, renamed>>

-----------------------------------------------------------------------------
Step(w) ==
    \/ CreateTemp(w) \/ CreateFails(w) \/ Fill(w) \/ Sync(w) \/ Close(w)
    \/ Rename(w) \/ Return(w) \/ Abort(w)

Next ==
    \/ \E w \in Writer : Step(w)
    \/ Writeback
    \/ ProcessCrash
    \/ PowerLoss

Spec == Init /\ [][Next]_vars

-----------------------------------------------------------------------------
(* What a reader sees, and the properties *)

\* What os.ReadFile of the target returns.
Content ==
    IF target \in Writer /\ bytes[target] # "whole" THEN Torn ELSE target

\* What the caller of w was told.
Answer(w) == IF pc[w] \in Returned \union {"lost"} THEN pc[w] ELSE "none"

\* The target is absent or holds everything one call wrote, at every
\* moment of every call and after every crash or power loss ("Write
\* atomically writes data to path").
TargetWhole == Content # Torn

\* A temporary file stays in the directory only while its call runs or
\* when the process died under it ("If fn returns an error or panics, the
\* temporary file is removed"), or when the removal failed or was undone.
NoLeftovers ==
    \A w \in temps : pc[w] \in InFlight \union {"lost"} \/ w \in stuck

\* Whoever the target belongs to renamed it there, and a call that answered
\* with an error never did: a failed Write leaves the old content alone.
OnlyCommitted ==
    /\ {target, durable} \subseteq renamed \union {None}
    /\ \A w \in renamed : pc[w] \in {"renamed", "ok", "lost"}

\* The comment at the fsync says it "guarantees durability across power
\* loss, not just program crashes": what a call reported as written stays
\* until another call replaces it.
AcknowledgedSurvives ==
    [][\A w \in Writer :
          (pc[w] = "ok" /\ target = w) =>
              target' = w \/ \E v \in Writer : Rename(v)]_vars

\* Every behaviour of these calls is one of the abstract store.
Store == INSTANCE AtomicStore
            WITH value   <- Content,
                 applied <- renamed,
                 answer  <- [w \in Writer |-> Answer(w)],
                 Nothing <- None
StoreSpec == Store!Spec
=============================================================================
