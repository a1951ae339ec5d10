---------------------------- MODULE PageControls ----------------------------
(***************************************************************************)
(* Three independent parts of the frontend that share no state: the volume *)
(* and the save-state buttons of the play page, and the gamepad loop of    *)
(* the library and details pages.  A behaviour is one of one of them, with *)
(* the others at rest.                                                     *)
(***************************************************************************)
EXTENDS MasterVolume, SaveStates, Gamepad

VARIABLE part

ControlsInit ==
    /\ part \in {"volume", "states", "gamepad"}
    /\ VolumeInit /\ SaveStatesInit /\ GamepadInit
    /\ part # "volume" => slider = Unity
    /\ part # "states" => state = None

ControlsNext ==
    \/ part = "volume" /\ VolumeNext /\ UNCHANGED <<stateVars, padVars, part>>
    \/ part = "states" /\ SaveStatesNext /\ UNCHANGED <<volumeVars, padVars, part>>
    \/ part = "gamepad" /\ GamepadNext /\ UNCHANGED <<volumeVars, stateVars, part>>

\* The browser runs intervals, animation frames and callbacks, and every
\* request is answered or fails.
ControlsSpec ==
    /\ ControlsInit
    /\ [][ControlsNext]_<<volumeVars, stateVars, padVars, part>>
    /\ WF_padVars(part = "gamepad" /\ (LastFrame \/ Frame))
    /\ \A n \in Saves :
         WF_stateVars(part = "states" /\ (ServeSave(n) \/ LoseSave(n) \/ TellSave(n)))
    /\ \A l \in Loads :
         WF_stateVars(part = "states" /\ (ServeLoad(l) \/ Apply(l) \/ TellLoad(l)))

-----------------------------------------------------------------------------
\* The emulator is only ever given a state of some length, the loop's counter
\* is the number of gamepads that the browser has announced and not withdrawn,
\* and the poll stays within its bound.
ControlsTypeOK == VolumeTypeOK /\ SaveStatesTypeOK /\ GamepadTypeOK
=============================================================================
