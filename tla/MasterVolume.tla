---------------------------- MODULE MasterVolume ----------------------------
(***************************************************************************)
(* frontend/masterVolume.js: one gain in front of the destination of each  *)
(* AudioContext, and the wrapper that drives it from the emulator's        *)
(* volume slider.                                                          *)
(*                                                                         *)
(* The emulator (EmulatorJS, external) comes up in parts while the page    *)
(* polls for it; its core connects audio nodes when it likes, and may open *)
(* or close an OpenAL context, whose sources setVolume scales by itself.   *)
(***************************************************************************)
EXTENDS Integers

CONSTANTS
    Contexts,    \* AudioContexts that the core creates
    NoGain,      \* a context without a master yet
    Volumes,     \* positions of the slider, in percent, with 0 and Unity
    MaxTries     \* how often installMasterVolume polls (100 in the code)

Unity == 100

ASSUME VolumeAssumption ==
    /\ Volumes \subseteq 0 .. Unity /\ {0, Unity} \subseteq Volumes
    /\ NoGain \notin Volumes
    /\ MaxTries \in Nat

\* What setVolume needs, in whatever order it comes up.
Parts == {"setVolume", "Module"}

VARIABLES
    up,         \* the parts of the emulator that are there
    slider,     \* emulator.volume
    asked,      \* the last argument of setVolume
    al,         \* Module.AL.currentCtx is there
    sources,    \* the gain of the OpenAL sources
    gains,      \* state.masterGains: the gain of each context's master
    volume,     \* state.volume
    attenuate,  \* state.attenuate
    wrapped,    \* emulator.__fpMasterVolumeInstalled
    tries,      \* the counter of installMasterVolume
    polling,    \* its interval is live
    switched    \* history: OpenAL came or went since the last setVolume

emulator   == <<up, al>>
master     == <<gains, volume, attenuate>>
poll       == <<wrapped, tries, polling>>
volumeVars == <<emulator, slider, asked, sources, master, poll, switched>>

VolumeTypeOK ==
    /\ up \subseteq Parts
    /\ {slider, asked, sources, volume} \subseteq Volumes
    /\ gains \in [Contexts -> Volumes \union {NoGain}]
    /\ {al, attenuate, wrapped, polling, switched} \subseteq BOOLEAN
    /\ tries \in 0 .. MaxTries + 1

VolumeInit ==
    /\ up = {}
    /\ slider \in Volumes /\ asked = slider
    /\ al = FALSE /\ sources = Unity
    /\ gains = [c \in Contexts |-> NoGain]
    /\ volume = Unity /\ attenuate = FALSE
    /\ wrapped = FALSE /\ tries = 0 /\ polling = TRUE
    /\ switched = FALSE

-----------------------------------------------------------------------------
effectiveGain == IF attenuate THEN volume ELSE Unity

\* The emulator creates its menu bar, or attaches its Module.
ComesUp ==
    /\ \E part \in Parts \ up : up' = up \union {part}
    /\ UNCHANGED <<slider, asked, al, sources, master, poll, switched>>

\* OpenAL opens a context, with sources at full gain, or closes it.
SwitchOpenAL ==
    /\ "Module" \in up
    /\ al' = ~al
    /\ sources' = Unity
    /\ switched' = TRUE
    /\ UNCHANGED <<up, slider, asked, master, poll>>

\* Mutant of Connect: a new master starts at full gain.
ConnectUnity(c) ==
    /\ gains[c] = NoGain
    /\ gains' = [gains EXCEPT ![c] = Unity]
    /\ UNCHANGED <<emulator, slider, asked, sources, volume, attenuate, poll, switched>>

\* masterFor: the first connection to the destination of a context.
Connect(c) ==
    /\ gains[c] = NoGain
    /\ gains' = [gains EXCEPT ![c] = effectiveGain]
    /\ UNCHANGED <<emulator, slider, asked, sources, volume, attenuate, poll, switched>>

\* Mutant of applyMasterVolume: the gain is set whoever drives the volume.
applyMasterVolumeAlways(v, openalActive) ==
    /\ volume' = v
    /\ attenuate' = TRUE
    /\ gains' = [c \in Contexts |-> IF gains[c] = NoGain THEN NoGain ELSE v]

applyMasterVolume(v, openalActive) ==
    /\ volume' = v
    /\ attenuate' = ~openalActive
    /\ gains' = [c \in Contexts |->
                    IF gains[c] = NoGain THEN NoGain
                    ELSE IF openalActive THEN Unity ELSE v]

\* The emulator's own setVolume, then the wrapper's part.
setVolume(v) ==
    /\ asked' = v
    /\ sources' = IF al THEN v ELSE sources
    /\ switched' = FALSE
    /\ IF wrapped' THEN applyMasterVolume(v, al) ELSE UNCHANGED master

\* The user moves the slider, which is emulator.volume, or mutes.
Slide ==
    /\ up = Parts
    /\ \E v \in Volumes \ {asked} :
         /\ slider' = v \/ (v = 0 /\ UNCHANGED slider)
         /\ UNCHANGED poll
         /\ setVolume(v)
    /\ UNCHANGED emulator

\* A tick of the interval: wrapSetVolume once the emulator is ready, with the
\* call that aligns the masters with the slider ...
Wrap ==
    /\ polling /\ up = Parts /\ ~wrapped
    /\ wrapped' = TRUE
    /\ polling' = FALSE
    /\ setVolume(slider)
    /\ UNCHANGED <<emulator, slider, tries>>

\* ... or another try, up to a bound.
TryAgain ==
    /\ polling /\ up # Parts
    /\ tries' = tries + 1
    /\ polling' = (tries + 1 <= MaxTries)
    /\ UNCHANGED <<emulator, slider, asked, sources, master, wrapped, switched>>

VolumeNext ==
    \/ ComesUp \/ SwitchOpenAL \/ Slide \/ Wrap \/ TryAgain
    \/ \E c \in Contexts : Connect(c)

-----------------------------------------------------------------------------
\* "The only real hazard is double attenuation": the masters are transparent
\* whenever the emulator scales OpenAL's sources, whichever of slider, poll,
\* OpenAL and new contexts came first.
NotTwice ==
    al /\ sources # Unity => \A c \in Contexts : gains[c] \in {NoGain, Unity}

\* A core without OpenAL plays as loud as setVolume was last told, on contexts
\* connected before the wrapper was installed and after.
SliderHeard ==
    wrapped /\ ~al /\ ~switched => \A c \in Contexts : gains[c] \in {NoGain, asked}
=============================================================================
