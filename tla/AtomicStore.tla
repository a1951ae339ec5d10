---------------------------- MODULE AtomicStore ----------------------------
(***************************************************************************)
(* What a caller of atomicfile.Write may rely on, stated without temporary *)
(* files, fsync or rename: one path holds either nothing or everything one *)
(* call wrote.  A call first takes effect (Apply) and then answers (Ack);  *)
(* a call that answers with an error never takes effect.  A crash of the   *)
(* process loses the calls in flight, whose effect may or may not have     *)
(* happened; a power loss may also bring back what an earlier call wrote.  *)
(*                                                                         *)
(* AtomicFile implements this specification; Saves and Details use it as   *)
(* the model of a write.                                                   *)
(***************************************************************************)
CONSTANTS Writer,   \* the calls of Write, each named by the data it writes
          Nothing   \* the value of a path that was never written

VARIABLES value,    \* what a read of the path returns
          applied,  \* the calls that took effect
          answer    \* what each call told its caller

vars == <<value, applied, answer>>

Init ==
    /\ value = Nothing
    /\ applied = {}
    /\ answer = [w \in Writer |-> "none"]

\* The call takes effect, all of its data at once.
Apply(w) ==
    /\ answer[w] = "none"
    /\ w \notin applied
    /\ value' = w
    /\ applied' = applied \union {w}
    /\ UNCHANGED answer

\* The call reports success, which it does only after it took effect.
Ack(w) ==
    /\ answer[w] = "none"
    /\ w \in applied
    /\ answer' = [answer EXCEPT ![w] = "ok"]
    /\ UNCHANGED <<value, applied>>

\* The call reports an error; it has had no effect and will have none.
Fail(w) ==
    /\ answer[w] = "none"
    /\ w \notin applied
    /\ answer' = [answer EXCEPT ![w] = "error"]
    /\ UNCHANGED <<value, applied>>

\* The calls of S lose their caller; after a power loss the path may hold
\* what any call that took effect wrote, or nothing.
Crash(S) ==
    /\ \A w \in S : answer[w] = "none"
    /\ answer' = [w \in Writer |-> IF w \in S THEN "lost" ELSE answer[w]]
    /\ value' \in applied \union {Nothing}
    /\ UNCHANGED applied

Next ==
    \/ \E w \in Writer : Apply(w) \/ Ack(w) \/ Fail(w)
    \/ \E S \in SUBSET Writer : Crash(S)

Spec == Init /\ [][Next]_vars
=============================================================================
