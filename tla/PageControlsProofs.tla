------------------------- MODULE PageControlsProofs -------------------------
(***************************************************************************)
(* Proofs about PageControls: the master volume, the save-state buttons    *)
(* and the gamepad loop, for every set of audio contexts, slider positions *)
(* and gamepads and every bound.                                           *)
(***************************************************************************)
EXTENDS PageControls, FiniteSetTheorems, TLAPS

controlsVars == <<volumeVars, stateVars, padVars, part>>

-----------------------------------------------------------------------------
(* The master volume *)

Neutral == \A c \in Contexts : gains[c] \in {NoGain, Unity}

\* The poll ends one try past its bound.
PollBound == polling => tries <= MaxTries

\* Until the wrapper is there the masters are neutral; afterwards they follow
\* the slider, or stay neutral while OpenAL's sources do.
Untouched == ~wrapped => ~attenuate /\ Neutral
Scaled    == al /\ sources # Unity => ~attenuate /\ Neutral
Followed  ==
    wrapped /\ ~al /\ ~switched =>
        /\ attenuate /\ volume = asked
        /\ \A c \in Contexts : gains[c] \in {NoGain, asked}

VolumeInv == VolumeTypeOK /\ PollBound /\ Untouched /\ Scaled /\ Followed

\* What the emulator's setVolume and the wrapper leave behind.
LEMMA SetVolume ==
  ASSUME VolumeTypeOK, Untouched, NEW v \in Volumes, wrapped' \in BOOLEAN,
         wrapped => wrapped', setVolume(v), UNCHANGED al
  PROVE  /\ {asked, sources, volume}' \subseteq Volumes
         /\ gains' \in [Contexts -> Volumes \union {NoGain}]
         /\ {attenuate, switched}' \subseteq BOOLEAN
         /\ Untouched' /\ Scaled' /\ Followed'
  <1>. USE VolumeAssumption
  <1>1. asked' = v /\ switched' = FALSE /\ sources' = IF al THEN v ELSE sources
    BY DEF setVolume
  <1>2. CASE wrapped'
    <2>1. /\ volume' = v /\ attenuate' = ~al
          /\ gains' = [c \in Contexts |-> IF gains[c] = NoGain THEN NoGain
                                          ELSE IF al THEN Unity ELSE v]
      BY <1>2 DEF setVolume, applyMasterVolume
    <2>2. gains' \in [Contexts -> Volumes \union {NoGain}]  BY <2>1
    <2>3. Untouched'  BY <1>2 DEF Untouched
    <2>4. Scaled'  BY <2>1 DEF Scaled, Neutral
    <2>5. Followed'  BY <1>1, <2>1 DEF Followed
    <2>. QED  BY <1>1, <2>1, <2>2, <2>3, <2>4, <2>5 DEF VolumeTypeOK
  <1>3. CASE ~wrapped'
    <2>1. volume' = volume /\ attenuate' = attenuate /\ gains' = gains
      BY <1>3 DEF setVolume, master
    <2>2. ~attenuate /\ Neutral  BY <1>3 DEF Untouched
    <2>3. ~attenuate' /\ Neutral'  BY <2>1, <2>2 DEF Neutral
    <2>. QED  BY <1>1, <1>3, <2>1, <2>3 DEF VolumeTypeOK, Untouched, Scaled, Followed
  <1>. QED  BY <1>2, <1>3

LEMMA VolumeStep ==
  ASSUME VolumeInv, VolumeNext
  PROVE  VolumeInv'
  <1>. USE VolumeAssumption DEF VolumeInv
  <1>1. CASE ComesUp
    BY <1>1 DEF ComesUp, VolumeTypeOK, PollBound, Untouched, Scaled, Followed, Neutral,
                master, poll
  <1>2. CASE SwitchOpenAL
    BY <1>2 DEF SwitchOpenAL, VolumeTypeOK, PollBound, Untouched, Scaled, Followed,
                Neutral, master, poll
  <1>3. CASE Slide
    <2>1. PICK v \in Volumes :
            (slider' = v \/ (v = 0 /\ UNCHANGED slider)) /\ setVolume(v)
      BY <1>3 DEF Slide
    <2>2. UNCHANGED <<up, al, wrapped, tries, polling>>
      BY <1>3 DEF Slide, emulator, poll
    <2>3. wrapped' \in BOOLEAN  BY <2>2 DEF VolumeTypeOK
    <2>. QED  BY <2>1, <2>2, <2>3, SetVolume DEF VolumeTypeOK, PollBound
  <1>4. CASE Wrap
    <2>1. /\ wrapped' /\ wrapped' = TRUE /\ polling' = FALSE /\ setVolume(slider)
          /\ UNCHANGED <<up, al, slider, tries>>
      BY <1>4 DEF Wrap, emulator
    <2>2. slider \in Volumes  BY DEF VolumeTypeOK
    <2>. QED  BY <2>1, <2>2, SetVolume DEF VolumeTypeOK, PollBound
  <1>5. CASE TryAgain
    <2>1. /\ polling /\ tries' = tries + 1 /\ polling' = (tries + 1 <= MaxTries)
          /\ UNCHANGED <<up, al, slider, asked, sources, gains, volume, attenuate,
                         wrapped, switched>>
      BY <1>5 DEF TryAgain, emulator, master
    <2>2. tries \in 0 .. MaxTries  BY <2>1 DEF VolumeTypeOK, PollBound
    <2>3. tries' \in 0 .. MaxTries + 1  BY <2>1, <2>2
    <2>4. polling' \in BOOLEAN  BY <2>1
    <2>5. VolumeTypeOK'  BY <2>1, <2>3, <2>4 DEF VolumeTypeOK
    <2>6. PollBound'  BY <2>1 DEF PollBound
    <2>7. Untouched' /\ Scaled' /\ Followed'
      BY <2>1 DEF Untouched, Scaled, Followed, Neutral
    <2>. QED  BY <2>5, <2>6, <2>7
  <1>6. ASSUME NEW c \in Contexts, Connect(c)  PROVE VolumeInv'
    <2>1. /\ gains' = [gains EXCEPT ![c] = effectiveGain]
          /\ UNCHANGED <<up, al, slider, asked, sources, volume, attenuate,
                         wrapped, tries, polling, switched>>
      BY <1>6 DEF Connect, emulator, poll
    <2>2. effectiveGain \in Volumes /\ (~attenuate => effectiveGain = Unity)
          /\ (attenuate => effectiveGain = volume)
      BY DEF effectiveGain, VolumeTypeOK
    <2>3. VolumeTypeOK'  BY <2>1, <2>2 DEF VolumeTypeOK
    <2>4. \A d \in Contexts : gains'[d] \in {gains[d], effectiveGain}
      BY <2>1 DEF VolumeTypeOK
    <2>5. ~attenuate /\ Neutral => Neutral'  BY <2>2, <2>4 DEF Neutral
    <2>. QED  BY <2>1, <2>2, <2>3, <2>4, <2>5 DEF PollBound, Untouched, Scaled, Followed
  <1>. QED  BY <1>1, <1>2, <1>3, <1>4, <1>5, <1>6 DEF VolumeNext

-----------------------------------------------------------------------------
(* The save-state buttons *)

\* Saves are pressed in order, and only a save that was sent is on its way.
InOrder ==
    /\ \A n \in Saves : saves[n] # "unsent" => \A m \in 1 .. n - 1 : saves[m] # "unsent"
    /\ \A n \in posts : saves[n] # "unsent"

\* While saves do not overlap, none was sent after one that is on its way, and
\* the file has caught up with every save that was stored.
Latest ==
    alone => \A n \in posts, m \in Saves : n < m => saves[m] \in {"unsent", "denied"}
CaughtUp ==
    alone => \A n \in Saves : saves[n] \in {"stored", "confirmed"} => state \in n .. MaxSaves

SaveStatesInv == SaveStatesTypeOK /\ InOrder /\ Latest /\ CaughtUp

LEMMA SaveStep ==
  ASSUME SaveStatesInv, NEW n \in Saves,
         PressSave(n) \/ ServeSave(n) \/ LoseSave(n) \/ TellSave(n)
  PROVE  SaveStatesInv'
  <1>. USE SaveStatesAssumption DEF SaveStatesInv, Saves
  <1>t. n \in 1 .. MaxSaves /\ n \in Int  OBVIOUS
  <1>1. CASE PressSave(n)
    <2>1. /\ saves[n] = "unsent" /\ \A m \in 1 .. n - 1 : saves[m] # "unsent"
          /\ UNCHANGED <<state, loads, running>>
      BY <1>1 DEF PressSave
    <2>2. \A m \in Saves : n < m => saves[m] = "unsent"  BY <2>1 DEF InOrder
    <2>3. n \notin posts  BY <2>1 DEF InOrder
    <2>4. CASE /\ saves' = [saves EXCEPT ![n] = "sent"]
               /\ posts' = posts \union {n}
               /\ alone' = (alone /\ posts = {})
      <3>1. SaveStatesTypeOK'  BY <2>1, <2>4 DEF SaveStatesTypeOK
      <3>2. InOrder'  BY <2>1, <2>4 DEF InOrder, SaveStatesTypeOK
      <3>3. Latest'
        <4>1. alone' => posts' = {n}  BY <2>4
        <4>2. \A m \in Saves : n < m => saves'[m] = "unsent"
          BY <2>2, <2>4 DEF SaveStatesTypeOK
        <4>. QED  BY <4>1, <4>2 DEF Latest
      <3>4. CaughtUp'  BY <2>1, <2>4 DEF CaughtUp, SaveStatesTypeOK
      <3>. QED  BY <3>1, <3>2, <3>3, <3>4
    <2>5. CASE saves' = [saves EXCEPT ![n] = "denied"] /\ UNCHANGED <<posts, alone>>
      <3>1. SaveStatesTypeOK'  BY <2>1, <2>5 DEF SaveStatesTypeOK
      <3>2. InOrder'  BY <2>1, <2>5 DEF InOrder, SaveStatesTypeOK
      <3>3. Latest'  BY <2>1, <2>5 DEF Latest, SaveStatesTypeOK
      <3>4. CaughtUp'  BY <2>1, <2>5 DEF CaughtUp, SaveStatesTypeOK
      <3>. QED  BY <3>1, <3>2, <3>3, <3>4
    <2>. QED  BY <1>1, <2>4, <2>5 DEF PressSave
  <1>2. CASE ServeSave(n)
    <2>1. n \in posts /\ posts' = posts \ {n} /\ UNCHANGED <<loads, running, alone>>
      BY <1>2 DEF ServeSave
    <2>2. state' = n \/ UNCHANGED state  BY <1>2 DEF ServeSave
    <2>3. PICK end \in {"stored", "rejected"} :
            /\ saves' = [saves EXCEPT ![n] = IF @ = "sent" THEN end ELSE @]
            /\ end = "stored" => state' = n
      BY <1>2 DEF ServeSave
    <2>4. SaveStatesTypeOK'
      <3>1. state' \in {None, Empty} \union States  BY <2>2 DEF SaveStatesTypeOK, States
      <3>2. saves' \in [Saves -> {"unsent", "sent", "stored", "rejected", "lost",
                                  "confirmed", "denied"}]
        BY <2>3 DEF SaveStatesTypeOK
      <3>. QED  BY <2>1, <3>1, <3>2 DEF SaveStatesTypeOK
    <2>5. InOrder'  BY <2>1, <2>3 DEF InOrder, SaveStatesTypeOK
    <2>6. Latest'  BY <2>1, <2>3 DEF Latest, SaveStatesTypeOK, InOrder
    <2>7. CaughtUp'
      <3>. SUFFICES ASSUME alone, NEW m \in Saves, saves'[m] \in {"stored", "confirmed"}
                    PROVE  state' \in m .. MaxSaves
        BY <2>1 DEF CaughtUp
      <3>1. m <= n \/ saves[m] \in {"unsent", "denied"}  BY <2>1 DEF Latest
      <3>2. m # n => saves'[m] = saves[m]  BY <2>3 DEF SaveStatesTypeOK
      <3>3. m <= n  BY <3>1, <3>2
      <3>4. state' = n => state' \in m .. MaxSaves  BY <3>3
      <3>5. CASE UNCHANGED state /\ saves[m] \in {"stored", "confirmed"}
        BY <3>5 DEF CaughtUp
      <3>6. CASE m = n /\ saves[n] = "sent"
        BY <2>3, <3>4, <3>6 DEF SaveStatesTypeOK
      <3>. QED  BY <2>2, <2>3, <3>2, <3>4, <3>5, <3>6 DEF SaveStatesTypeOK
    <2>. QED  BY <2>4, <2>5, <2>6, <2>7
  <1>3. CASE LoseSave(n)
    <2>1. /\ saves[n] \in {"sent", "stored", "rejected"}
          /\ saves' = [saves EXCEPT ![n] = "lost"]
          /\ posts' \subseteq posts
          /\ UNCHANGED <<state, loads, running, alone>>
      BY <1>3 DEF LoseSave
    <2>2. SaveStatesTypeOK'  BY <2>1 DEF SaveStatesTypeOK
    <2>3. InOrder'  BY <2>1 DEF InOrder, SaveStatesTypeOK
    <2>4. Latest'
      BY <2>1 DEF Latest, SaveStatesTypeOK
    <2>5. CaughtUp'  BY <2>1 DEF CaughtUp, SaveStatesTypeOK
    <2>. QED  BY <2>2, <2>3, <2>4, <2>5
  <1>4. CASE TellSave(n)
    <2>1. UNCHANGED <<state, posts, loads, running, alone>>  BY <1>4 DEF TellSave
    <2>2. PICK end \in {"confirmed", "denied"} :
            /\ saves' = [saves EXCEPT ![n] = end]
            /\ end = "confirmed" => saves[n] = "stored"
            /\ saves[n] # "unsent"
      BY <1>4 DEF TellSave
    <2>3. SaveStatesTypeOK'  BY <2>1, <2>2 DEF SaveStatesTypeOK
    <2>4. InOrder'  BY <2>1, <2>2 DEF InOrder, SaveStatesTypeOK
    <2>5. Latest'  BY <2>1, <2>2 DEF Latest, SaveStatesTypeOK
    <2>6. CaughtUp'  BY <2>1, <2>2 DEF CaughtUp, SaveStatesTypeOK
    <2>. QED  BY <2>3, <2>4, <2>5, <2>6
  <1>. QED  BY <1>1, <1>2, <1>3, <1>4

LEMMA LoadStep ==
  ASSUME SaveStatesInv, NEW l \in Loads,
         PressLoad(l) \/ ServeLoad(l) \/ Apply(l) \/ TellLoad(l)
  PROVE  SaveStatesInv'
  <1>. USE DEF SaveStatesInv
  <1>1. UNCHANGED <<state, saves, posts, alone>>
    BY DEF PressLoad, ServeLoad, Apply, TellLoad
  <1>2. InOrder' /\ Latest' /\ CaughtUp'  BY <1>1 DEF InOrder, Latest, CaughtUp
  <1>. DEFINE Load == [at : {"unsent", "sent", "bytes", "missing", "failed", "cut",
                             "told", "silent"},
                       body : {None, Empty} \union States]
  <1>3. loads \in [Loads -> Load]  BY DEF SaveStatesTypeOK
  <1>4. state \in {None, Empty} \union States  BY DEF SaveStatesTypeOK
  <1>5. loads' \in [Loads -> Load]
    BY <1>3, <1>4 DEF PressLoad, ServeLoad, Apply, TellLoad, Told
  <1>6. running' \in {None} \union States
    BY <1>3 DEF PressLoad, ServeLoad, Apply, TellLoad, SaveStatesTypeOK
  <1>. QED  BY <1>1, <1>2, <1>5, <1>6 DEF SaveStatesTypeOK

-----------------------------------------------------------------------------
(* The gamepad loop *)

\* The loop's counter counts the gamepads that the browser has announced.
Counted ==
    /\ IsFiniteSet(plugged)
    /\ gamepadCount \in Nat
    /\ gamepadCount = Cardinality(plugged)

GamepadInv == GamepadTypeOK /\ Counted /\ OneLoop

LEMMA GamepadStep ==
  ASSUME GamepadInv, GamepadNext
  PROVE  GamepadInv'
  <1>. USE GamepadAssumption DEF GamepadInv
  <1>1. CASE Press
    <2>1. /\ pressed' \in [Pads -> Held]
          /\ UNCHANGED <<plugged, gamepadCount, rafId, frames, heldAction, waited, fired>>
      BY <1>1 DEF Press, GamepadTypeOK
    <2>. QED  BY <2>1 DEF GamepadTypeOK, Counted, OneLoop
  <1>2. CASE Connected
    <2>1. PICK p \in Pads \ plugged : plugged' = plugged \union {p}
      BY <1>2 DEF Connected
    <2>2. IsFiniteSet(plugged') /\ Cardinality(plugged') = Cardinality(plugged) + 1
      BY <2>1, FS_AddElement DEF Counted
    <2>4. Counted'  BY <1>2, <2>2 DEF Connected, Counted
    <2>3. GamepadTypeOK'  BY <1>2, <2>1, <2>4 DEF Connected, GamepadTypeOK, Counted
    <2>5. OneLoop'  BY <1>2 DEF Connected, OneLoop, GamepadTypeOK
    <2>. QED  BY <2>3, <2>4, <2>5
  <1>3. CASE Disconnected
    <2>1. PICK p \in plugged : /\ plugged' = plugged \ {p}
                               /\ pressed' = [pressed EXCEPT ![p] = NoAction]
      BY <1>3 DEF Disconnected
    <2>2. IsFiniteSet(plugged') /\ Cardinality(plugged') = Cardinality(plugged) - 1
      BY <2>1, FS_RemoveElement DEF Counted
    <2>3. gamepadCount > 0
      <3>1. Cardinality(plugged) # 0  BY <2>1, FS_EmptySet DEF Counted
      <3>. QED  BY <3>1 DEF Counted
    <2>4. gamepadCount' = gamepadCount - 1
          /\ UNCHANGED <<rafId, frames, heldAction, waited, fired>>
      BY <1>3, <2>3 DEF Disconnected
    <2>6. Counted'  BY <2>2, <2>3, <2>4 DEF Counted
    <2>5. GamepadTypeOK'  BY <2>1, <2>4, <2>6 DEF GamepadTypeOK, Held, Counted
    <2>7. OneLoop'  BY <2>1, <2>4 DEF OneLoop
    <2>. QED  BY <2>5, <2>6, <2>7
  <1>4. CASE LastFrame
    <2>1. plugged = {}  BY <1>4, FS_EmptySet DEF LastFrame, Counted
    <2>2. GamepadTypeOK'
      <3>1. frames' \in Nat /\ waited' \in 0 .. REPEAT_DELAY
        BY <1>4 DEF LastFrame, GamepadTypeOK
      <3>. QED  BY <1>4, <3>1 DEF LastFrame, GamepadTypeOK
    <2>3. Counted'  BY <1>4 DEF LastFrame, Counted
    <2>4. OneLoop'  BY <1>4, <2>1 DEF LastFrame, OneLoop, GamepadTypeOK
    <2>. QED  BY <2>2, <2>3, <2>4
  <1>5. CASE Frame
    <2>1. UNCHANGED <<plugged, pressed, gamepadCount, rafId, frames>>
      BY <1>5 DEF Frame
    <2>2. heldAction' \in Held  BY <1>5 DEF Frame
    <2>3. waited' \in 0 .. REPEAT_DELAY  BY <1>5 DEF Frame, GamepadTypeOK
    <2>4. fired' \in Held \X BOOLEAN
      <3>1. ASSUME NEW a \in Held, handleAction(a)  PROVE fired' \in Held \X BOOLEAN
        <4>1. fired' = <<a, ~fired[2]>>  BY <3>1 DEF handleAction
        <4>2. (~fired[2]) \in BOOLEAN  OBVIOUS
        <4>. QED  BY <4>1, <4>2
      <3>2. fired \in Held \X BOOLEAN  BY DEF GamepadTypeOK
      <3>. QED  BY <1>5, <3>1, <3>2 DEF Frame
    <2>. QED  BY <2>1, <2>2, <2>3, <2>4 DEF GamepadTypeOK, Counted, OneLoop
  <1>. QED  BY <1>1, <1>2, <1>3, <1>4, <1>5 DEF GamepadNext

-----------------------------------------------------------------------------
(* The three together *)

ControlsInv == VolumeInv /\ SaveStatesInv /\ GamepadInv

LEMMA ControlsStart ==
  ASSUME ControlsInit
  PROVE  ControlsInv
  <1>1. VolumeInv
    <2>1. VolumeInit  BY DEF ControlsInit
    <2>2. VolumeTypeOK
      <3>1. {slider, asked, sources, volume} \subseteq Volumes
        BY <2>1, VolumeAssumption DEF VolumeInit
      <3>2. gains \in [Contexts -> Volumes \union {NoGain}]  BY <2>1 DEF VolumeInit
      <3>3. {al, attenuate, wrapped, polling, switched} \subseteq BOOLEAN
        BY <2>1 DEF VolumeInit
      <3>4. tries \in 0 .. MaxTries + 1  BY <2>1, VolumeAssumption DEF VolumeInit
      <3>. QED  BY <2>1, <3>1, <3>2, <3>3, <3>4 DEF VolumeInit, VolumeTypeOK
    <2>3. PollBound  BY <2>1, VolumeAssumption DEF VolumeInit, PollBound
    <2>4. Untouched /\ Scaled /\ Followed
      BY <2>1 DEF VolumeInit, Untouched, Scaled, Followed, Neutral
    <2>. QED  BY <2>2, <2>3, <2>4 DEF VolumeInv
  <1>2. SaveStatesInv
    BY SaveStatesAssumption
    DEF ControlsInit, SaveStatesInit, SaveStatesInv, SaveStatesTypeOK, InOrder, Latest,
        CaughtUp, States
  <1>3. GamepadInv
    <2>1. GamepadInit  BY DEF ControlsInit
    <2>2. fired \in Held \X BOOLEAN  BY <2>1 DEF GamepadInit, Held
    <2>3. GamepadTypeOK
      <3>1. waited \in 0 .. REPEAT_DELAY /\ frames \in Nat
        BY <2>1, GamepadAssumption DEF GamepadInit
      <3>4. gamepadCount = Cardinality(plugged)
        BY <2>1, FS_EmptySet DEF GamepadInit
      <3>2. rafId \in BOOLEAN  BY <2>1 DEF GamepadInit
      <3>3. pressed \in [Pads -> Held] /\ heldAction \in Held /\ plugged \subseteq Pads
        BY <2>1 DEF GamepadInit, Held
      <3>. QED  BY <2>2, <3>1, <3>2, <3>3, <3>4 DEF GamepadTypeOK
    <2>4. Counted  BY <2>1, FS_EmptySet DEF GamepadInit, Counted
    <2>5. OneLoop  BY <2>1 DEF GamepadInit, OneLoop
    <2>. QED  BY <2>3, <2>4, <2>5 DEF GamepadInv
  <1>. QED  BY <1>1, <1>2, <1>3 DEF ControlsInv

LEMMA VolumeRests ==
  ASSUME VolumeInv, UNCHANGED volumeVars
  PROVE  VolumeInv'
  BY DEF volumeVars, emulator, master, poll, VolumeInv, VolumeTypeOK, PollBound,
         Untouched, Scaled, Followed, Neutral

LEMMA SaveStatesRest ==
  ASSUME SaveStatesInv, UNCHANGED stateVars
  PROVE  SaveStatesInv'
  BY DEF stateVars, SaveStatesInv, SaveStatesTypeOK, InOrder, Latest, CaughtUp

LEMMA GamepadRests ==
  ASSUME GamepadInv, UNCHANGED padVars
  PROVE  GamepadInv'
  BY DEF padVars, GamepadInv, GamepadTypeOK, Counted, OneLoop

LEMMA ControlsStep ==
  ASSUME ControlsInv, [ControlsNext]_controlsVars
  PROVE  ControlsInv'
  <1>. USE VolumeRests, SaveStatesRest, GamepadRests DEF ControlsInv
  <1>1. CASE VolumeNext /\ UNCHANGED <<stateVars, padVars, part>>
    BY <1>1, VolumeStep
  <1>2. CASE SaveStatesNext /\ UNCHANGED <<volumeVars, padVars, part>>
    BY <1>2, SaveStep, LoadStep DEF SaveStatesNext
  <1>3. CASE GamepadNext /\ UNCHANGED <<volumeVars, stateVars, part>>
    BY <1>3, GamepadStep
  <1>4. CASE UNCHANGED controlsVars
    BY <1>4 DEF controlsVars
  <1>. QED  BY <1>1, <1>2, <1>3, <1>4 DEF ControlsNext

LEMMA ControlsInvariant == ControlsSpec => []ControlsInv
  <1>1. ControlsInit => ControlsInv  BY ControlsStart
  <1>2. ControlsInv /\ [ControlsNext]_controlsVars => ControlsInv'  BY ControlsStep
  <1>. QED  BY <1>1, <1>2, PTL DEF ControlsSpec, controlsVars

-----------------------------------------------------------------------------
\* The emulator only ever gets a state of some length (loadState), the poll
\* stays within its bound (installMasterVolume) and gamepadCount is the number
\* of gamepads the browser has announced (gamepadLoop).
THEOREM ControlsTypeCorrect == ControlsSpec => []ControlsTypeOK
  <1>1. ControlsInv => ControlsTypeOK
    BY DEF ControlsInv, VolumeInv, SaveStatesInv, GamepadInv, ControlsTypeOK
  <1>. QED  BY <1>1, ControlsInvariant, PTL

\* A master never attenuates what the emulator's setVolume scales already,
\* however slider, poll, OpenAL and new contexts interleave.
THEOREM NeverTwice == ControlsSpec => []NotTwice
  <1>1. ControlsInv => NotTwice
    BY DEF ControlsInv, VolumeInv, Scaled, Neutral, NotTwice
  <1>. QED  BY <1>1, ControlsInvariant, PTL

\* Every context of a core without OpenAL plays at the volume setVolume was
\* told last, whenever the context was connected.
THEOREM SliderIsHeard == ControlsSpec => []SliderHeard
  <1>1. ControlsInv => SliderHeard
    BY DEF ControlsInv, VolumeInv, Followed, SliderHeard
  <1>. QED  BY <1>1, ControlsInvariant, PTL

\* Where saves do not overlap, "Saved save state" is true of the file from then
\* on, however many answers are lost (postSave, handlePostSave).
THEOREM ConfirmedStays == ControlsSpec => []ConfirmedIsKept
  <1>1. ControlsInv => ConfirmedIsKept
    BY DEF ControlsInv, SaveStatesInv, CaughtUp, ConfirmedIsKept
  <1>. QED  BY <1>1, ControlsInvariant, PTL

\* Any number of gamepads share one loop, whose end and restart never overlap
\* (gamepadLoop).
THEOREM OneLoopOnly == ControlsSpec => []OneLoop
  <1>1. ControlsInv => OneLoop
    BY DEF ControlsInv, GamepadInv
  <1>. QED  BY <1>1, ControlsInvariant, PTL
=============================================================================
