-------------------------- MODULE AtomicFileProofs --------------------------
(***************************************************************************)
(* Proofs about AtomicFile, for any set of concurrent calls.  The order of *)
(* the steps of Write is what makes the target whole: a file is renamed    *)
(* only after its bytes are on stable storage (Flushed), so whichever file *)
(* a crash leaves under the target's name is complete.                     *)
(***************************************************************************)
EXTENDS AtomicFile, TLAPS

\* What Sync has flushed was complete, and a call past Sync is flushed.
Flushed ==
    /\ \A w \in Writer : pc[w] = "filled" => bytes[w] = "whole"
    /\ \A w \in synced : bytes[w] = "whole"
    /\ \A w \in Writer :
         pc[w] \in {"flushed", "closed", "renamed", "ok"} => w \in synced
    /\ renamed \subseteq synced

\* The history variable says which calls are past their rename.
Committed ==
    /\ OnlyCommitted
    /\ \A w \in Writer : pc[w] \in {"renamed", "ok"} => w \in renamed

\* A temporary name appears with the file and goes with the rename.
Temporary ==
    /\ NoLeftovers
    /\ \A w \in Writer : pc[w] = "start" => bytes[w] = "none" /\ w \notin temps
    /\ \A w \in Writer : pc[w] = "renamed" => w \notin temps

IInv == TypeOK /\ Flushed /\ Committed /\ Temporary

USE DEF InFlight, Returned, Places

\* The state before any call satisfies the invariant.
LEMMA InitInv == Init => IInv
BY AtomicFileAssumption
   DEF Init, IInv, TypeOK, Flushed, Committed, OnlyCommitted, Temporary, NoLeftovers

\* One step of one call of Write preserves the invariant.
LEMMA StepInv ==
    ASSUME IInv, NEW w \in Writer, Step(w)
    PROVE  IInv'
<1> USE AtomicFileAssumption
        DEF IInv, TypeOK, Flushed, Committed, OnlyCommitted, Temporary, NoLeftovers, Goto
<1>1. CASE CreateTemp(w)
  BY <1>1 DEF CreateTemp
<1>2. CASE CreateFails(w)
  BY <1>2 DEF CreateFails
<1>3. CASE Fill(w)
  BY <1>3 DEF Fill
<1>4. CASE Sync(w)
  BY <1>4 DEF Sync
<1>5. CASE Close(w)
  BY <1>5 DEF Close
<1>6. CASE Rename(w)
  BY <1>6 DEF Rename
<1>7. CASE Return(w)
  BY <1>7 DEF Return
<1>8. CASE Abort(w)
  BY <1>8 DEF Abort
<1> QED
  BY <1>1, <1>2, <1>3, <1>4, <1>5, <1>6, <1>7, <1>8 DEF Step

\* So do the file system's writeback and the two kinds of crash.
LEMMA EnvironmentInv ==
    ASSUME IInv, Writeback \/ ProcessCrash \/ PowerLoss
    PROVE  IInv'
<1> USE AtomicFileAssumption
        DEF IInv, TypeOK, Flushed, Committed, OnlyCommitted, Temporary, NoLeftovers
<1>1. CASE Writeback
  BY <1>1 DEF Writeback
<1>2. CASE ProcessCrash
  BY <1>2 DEF ProcessCrash, LoseCalls
<1>3. CASE PowerLoss
  BY <1>3 DEF PowerLoss, LoseCalls
<1> QED
  BY <1>1, <1>2, <1>3

\* The invariant holds at every moment of every behaviour.
LEMMA Invariance == Spec => []IInv
<1>1. Init => IInv
  BY InitInv
<1>2. IInv /\ [Next]_vars => IInv'
  <2> SUFFICES ASSUME IInv, [Next]_vars PROVE IInv'
    OBVIOUS
  <2>1. CASE \E w \in Writer : Step(w)
    BY <2>1, StepInv
  <2>2. CASE Writeback \/ ProcessCrash \/ PowerLoss
    BY <2>2, EnvironmentInv
  <2>3. CASE UNCHANGED vars
    BY <2>3 DEF vars, IInv, TypeOK, Flushed, Committed, OnlyCommitted, Temporary, NoLeftovers
  <2> QED
    BY <2>1, <2>2, <2>3 DEF Next
<1> QED
  BY <1>1, <1>2, PTL DEF Spec

-----------------------------------------------------------------------------
\* Every variable keeps its type.
THEOREM TypeCorrect == Spec => []TypeOK
<1>1. IInv => TypeOK
  BY DEF IInv
<1> QED
  BY <1>1, Invariance, PTL

\* The invariant makes what a reader sees whole, before and after a step:
\* nothing, or a file that its writer flushed before renaming it.
LEMMA Whole ==
    /\ IInv => Content = target /\ target \in renamed \union {None}
    /\ IInv' => Content' = target' /\ target' \in renamed' \union {None'}
BY AtomicFileAssumption DEF IInv, TypeOK, Flushed, Committed, OnlyCommitted, Content

\* A reader of the target never sees a part of a file, whatever the number
\* of overlapping calls and wherever a crash or a power loss stops them.
THEOREM NeverTorn == Spec => []TargetWhole
<1>1. IInv => TargetWhole
  BY Whole, AtomicFileAssumption DEF TargetWhole, IInv, TypeOK
<1> QED
  BY <1>1, Invariance, PTL

\* A call that answers with an error has had no effect on the target.
THEOREM FailedWritesInvisible == Spec => []OnlyCommitted
<1>1. IInv => OnlyCommitted
  BY DEF IInv, Committed
<1> QED
  BY <1>1, Invariance, PTL

\* No temporary file outlives the call that made it, unless the process died
\* or the removal itself failed.
THEOREM TemporariesRemoved == Spec => []NoLeftovers
<1>1. IInv => NoLeftovers
  BY DEF IInv, Temporary
<1> QED
  BY <1>1, Invariance, PTL

-----------------------------------------------------------------------------
(* The calls implement the abstract store *)

\* The initial state maps to the store's initial state.
LEMMA StoreInit == Init => Store!Init
BY AtomicFileAssumption DEF Init, Store!Init, Content, Answer

\* The steps that neither rename nor answer are invisible.
LEMMA StoreStutter ==
    ASSUME IInv, IInv', target' = target, renamed' = renamed,
           \A w \in Writer : Answer(w)' = Answer(w)
    PROVE  UNCHANGED Store!vars
BY Whole DEF Store!vars

\* A step of one call applies, acknowledges or fails the call, or is invisible.
LEMMA StoreStep ==
    ASSUME IInv, IInv', NEW w \in Writer, Step(w)
    PROVE  [Store!Next]_(Store!vars)
<1> USE DEF Goto, Answer, IInv, TypeOK
<1>0. /\ Content = target
      /\ Content' = target'
  BY Whole
<1>1. CASE CreateTemp(w) \/ Fill(w) \/ Sync(w) \/ Close(w)
  <2>1. /\ target' = target
        /\ renamed' = renamed
        /\ \A v \in Writer : Answer(v)' = Answer(v)
    BY <1>1 DEF CreateTemp, Fill, Sync, Close
  <2> QED
    BY <2>1, StoreStutter
<1>2. CASE CreateFails(w) \/ Abort(w)
  <2>1. w \notin renamed
    BY <1>2 DEF CreateFails, Abort, Committed, OnlyCommitted
  <2>2. Store!Fail(w)
    BY <1>0, <1>2, <2>1 DEF CreateFails, Abort, Store!Fail
  <2> QED
    BY <2>2 DEF Store!Next
<1>3. CASE Rename(w)
  <2>1. w \notin renamed
    BY <1>3 DEF Rename, Committed, OnlyCommitted
  <2>2. Store!Apply(w)
    BY <1>0, <1>3, <2>1 DEF Rename, Store!Apply
  <2> QED
    BY <2>2 DEF Store!Next
<1>4. CASE Return(w)
  <2>1. w \in renamed
    BY <1>4 DEF Return, Committed
  <2>2. Store!Ack(w)
    BY <1>0, <1>4, <2>1 DEF Return, Store!Ack
  <2> QED
    BY <2>2 DEF Store!Next
<1> QED
  BY <1>1, <1>2, <1>3, <1>4 DEF Step

\* A crash of the process or of the machine is a crash of the store.
LEMMA StoreCrash ==
    ASSUME IInv, IInv', ProcessCrash \/ PowerLoss
    PROVE  Store!Next
<1> DEFINE lost == {w \in Writer : pc[w] \in InFlight}
<1>1. /\ Content' = target'
      /\ target' \in renamed' \union {None}
      /\ renamed' = renamed
  BY Whole DEF ProcessCrash, PowerLoss
<1>2. /\ \A w \in lost : Answer(w) = "none"
      /\ \A w \in Writer : Answer(w)' = IF w \in lost THEN "lost" ELSE Answer(w)
  BY DEF ProcessCrash, PowerLoss, LoseCalls, Answer, IInv, TypeOK
<1>3. Store!Crash(lost)
  BY <1>1, <1>2 DEF Store!Crash
<1> QED
  BY <1>3 DEF Store!Next

\* Every behaviour of the overlapping calls, crashes and power losses
\* included, is a behaviour of AtomicStore: the callers of Write may reason
\* with one atomic step per call.
THEOREM ImplementsStore == Spec => StoreSpec
<1>1. Init => Store!Init
  BY StoreInit
<1>2. IInv /\ IInv' /\ [Next]_vars => [Store!Next]_(Store!vars)
  <2> SUFFICES ASSUME IInv, IInv', [Next]_vars
               PROVE  [Store!Next]_(Store!vars)
    OBVIOUS
  <2>1. CASE \E w \in Writer : Step(w)
    BY <2>1, StoreStep
  <2>2. CASE ProcessCrash \/ PowerLoss
    BY <2>2, StoreCrash
  <2>3. CASE Writeback \/ UNCHANGED vars
    BY <2>3, StoreStutter DEF Writeback, vars, Answer
  <2> QED
    BY <2>1, <2>2, <2>3 DEF Next
<1> QED
  BY <1>1, <1>2, Invariance, PTL DEF Spec, StoreSpec, Store!Spec
=============================================================================
