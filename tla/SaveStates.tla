----------------------------- MODULE SaveStates -----------------------------
(***************************************************************************)
(* The save-state buttons of the play page: EJS_onSaveState with postSave, *)
(* EJS_onLoadState with loadStateFromServer, and the file behind them.     *)
(*                                                                         *)
(* Nothing stops the player from pressing a button again before the last   *)
(* press is answered, and a POST whose answer is lost may still reach the  *)
(* disk later.  saves.Put is one atomic step or an error (AtomicStore).    *)
(***************************************************************************)
EXTENDS Integers

CONSTANTS
    MaxSaves,   \* bound: presses of "save state" with something to save
    MaxLoads,   \* bound: presses of "load state"
    None,       \* no file
    Empty       \* a file, or a state, of zero length

ASSUME SaveStatesAssumption ==
    /\ MaxSaves \in Nat /\ MaxLoads \in Nat
    /\ {None, Empty} \intersect Nat = {} /\ None # Empty

\* The n-th save of the page; 0 is a state from an earlier session.
Saves  == 1 .. MaxSaves
Loads  == 1 .. MaxLoads
States == 0 .. MaxSaves

VARIABLES
    state,     \* the state file on the server
    saves,     \* each save: where its request or answer is, or its message
    posts,     \* saves on their way to the disk
    loads,     \* each load: its request, its answer, or "told" / "silent", and
               \* the body of a 2xx
    running,   \* the state that loadState gave the emulator last
    alone      \* history: no save was ever sent before the last one was settled

stateVars == <<state, saves, posts, loads, running, alone>>

SaveStatesTypeOK ==
    /\ state \in {None, Empty} \union States
    /\ alone \in BOOLEAN
    /\ saves \in [Saves -> {"unsent", "sent", "stored", "rejected", "lost",
                            "confirmed", "denied"}]
    /\ posts \subseteq Saves
    /\ loads \in [Loads -> [at : {"unsent", "sent", "bytes", "missing", "failed", "cut",
                                  "told", "silent"},
                            body : {None, Empty} \union States]]
    /\ running \in {None} \union States

SaveStatesInit ==
    /\ state \in {None, Empty, 0}
    /\ saves = [n \in Saves |-> "unsent"]
    /\ posts = {}
    /\ loads = [l \in Loads |-> [at |-> "unsent", body |-> None]]
    /\ running = None
    /\ alone = TRUE

-----------------------------------------------------------------------------
\* EJS_onSaveState; an empty state makes no request, and a message at once.
PressSave(n) ==
    /\ saves[n] = "unsent"
    /\ \A m \in 1 .. n - 1 : saves[m] # "unsent"
    /\ \/ /\ saves' = [saves EXCEPT ![n] = "sent"]
          /\ posts' = posts \union {n}
          /\ alone' = (alone /\ posts = {})
       \/ /\ saves' = [saves EXCEPT ![n] = "denied"]
          /\ UNCHANGED <<posts, alone>>
    /\ UNCHANGED <<state, loads, running>>

\* handlePostSave, and its answer if the page still waits for one.
ServeSave(n) ==
    /\ n \in posts
    /\ posts' = posts \ {n}
    /\ \/ state' = n /\ saves' = [saves EXCEPT ![n] = IF @ = "sent" THEN "stored" ELSE @]
       \/ UNCHANGED state /\ saves' = [saves EXCEPT ![n] = IF @ = "sent" THEN "rejected" ELSE @]
    /\ UNCHANGED <<loads, running, alone>>

\* fetch throws: the request is gone, or still on its way, or served.
LoseSave(n) ==
    /\ saves[n] \in {"sent", "stored", "rejected"}
    /\ saves' = [saves EXCEPT ![n] = "lost"]
    /\ posts' \in {posts, posts \ {n}}
    /\ UNCHANGED <<state, loads, running, alone>>

\* Mutant of TellSave: the status is not looked at.
TellSaveAnyway(n) ==
    /\ \/ saves[n] \in {"stored", "rejected"} /\ saves' = [saves EXCEPT ![n] = "confirmed"]
       \/ saves[n] = "lost" /\ saves' = [saves EXCEPT ![n] = "denied"]
    /\ UNCHANGED <<state, posts, loads, running, alone>>

\* Mutant of TellSave: postSave's undefined is taken for a response.
TellSaveThrows(n) ==
    /\ \/ saves[n] = "stored" /\ saves' = [saves EXCEPT ![n] = "confirmed"]
       \/ saves[n] = "rejected" /\ saves' = [saves EXCEPT ![n] = "denied"]
    /\ UNCHANGED <<state, posts, loads, running, alone>>

\* The message: res.ok, or anything else.
TellSave(n) ==
    /\ \/ saves[n] = "stored" /\ saves' = [saves EXCEPT ![n] = "confirmed"]
       \/ saves[n] \in {"rejected", "lost"} /\ saves' = [saves EXCEPT ![n] = "denied"]
    /\ UNCHANGED <<state, posts, loads, running, alone>>

-----------------------------------------------------------------------------
\* EJS_onLoadState; without a gameManager (the emulator is not up yet) it
\* returns before any request and without a message.
PressLoad(l) ==
    /\ loads[l].at = "unsent"
    /\ \A m \in 1 .. l - 1 : loads[m].at # "unsent"
    /\ \E at \in {"sent", "silent"} : loads' = [loads EXCEPT ![l].at = at]
    /\ UNCHANGED <<state, saves, posts, running, alone>>

\* handleGetSave: the file, 404 or an error; or no answer, or a body that
\* breaks off.
ServeLoad(l) ==
    /\ loads[l].at = "sent"
    /\ \E at \in {"failed"} \union (IF state = None THEN {"missing"} ELSE {"bytes", "cut"}) :
         loads' = [loads EXCEPT ![l] = [at |-> at, body |-> state]]
    /\ UNCHANGED <<state, saves, posts, running, alone>>

Told(l) == loads' = [loads EXCEPT ![l] = [at |-> "told", body |-> None]]

\* Mutant of Apply: a body of zero length is applied like any other.
ApplyEmpty(l) ==
    /\ loads[l].at = "bytes"
    /\ running' \in {running, loads[l].body}
    /\ Told(l)
    /\ UNCHANGED <<state, saves, posts, alone>>

\* loadState, which may throw, and the message.
Apply(l) ==
    /\ loads[l].at = "bytes" /\ loads[l].body # Empty
    /\ running' \in {running, loads[l].body}
    /\ Told(l)
    /\ UNCHANGED <<state, saves, posts, alone>>

\* Nothing to load, or an error: a message.  The await of the body has no
\* handler, so a body that breaks off leaves the press without one.
TellLoad(l) ==
    /\ \/ loads[l].at \in {"missing", "failed"} /\ Told(l)
       \/ loads[l].at = "bytes" /\ loads[l].body = Empty /\ Told(l)
       \/ loads[l].at = "cut" /\ loads' = [loads EXCEPT ![l].at = "silent"]
    /\ UNCHANGED <<state, saves, posts, running, alone>>

-----------------------------------------------------------------------------
SaveStatesNext ==
    \/ \E n \in Saves : PressSave(n) \/ ServeSave(n) \/ LoseSave(n) \/ TellSave(n)
    \/ \E l \in Loads : PressLoad(l) \/ ServeLoad(l) \/ Apply(l) \/ TellLoad(l)

-----------------------------------------------------------------------------
\* "Saved save state" means it: as long as the player saves only after the last
\* save has left the network and the server, the state that was confirmed last,
\* or one sent after it, is what the file holds and a load brings back.
ConfirmedIsKept ==
    alone => \A n \in Saves : saves[n] = "confirmed" => state \in n .. MaxSaves

\* "Without the message the button appears to do nothing": every press of
\* "save state" has its message, however its request ends, and so has every
\* load that is answered in full or fails.  Two kinds of loads are left out: a
\* press before the emulator is up, and an answer whose body breaks off.
PressesAnswered ==
    /\ \A n \in Saves : saves[n] # "unsent" ~> saves[n] \in {"confirmed", "denied"}
    /\ \A l \in Loads :
         /\ loads[l].at = "sent" ~> loads[l].at \in {"bytes", "missing", "failed", "cut"}
         /\ loads[l].at \in {"bytes", "missing", "failed"} ~> loads[l].at = "told"

-----------------------------------------------------------------------------
(* What a comment says, and the code does not do *)

\* loadState_test.js: "every non-happy branch surfaces a user message": a load
\* that was asked of the server ends in a message.  The await of arrayBuffer
\* stands outside every try, so a body that breaks off does not.
LoadsTold == \A l \in Loads : loads[l].at = "sent" ~> loads[l].at = "told"
=============================================================================
