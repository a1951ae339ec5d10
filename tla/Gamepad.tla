------------------------------- MODULE Gamepad -------------------------------
(***************************************************************************)
(* gamepadLoop of frontend/input.js: the animation frames that read the    *)
(* gamepads while any is connected, with the browser's events in between.  *)
(***************************************************************************)
EXTENDS Integers, FiniteSets

CONSTANTS
    Pads,          \* gamepads
    Actions,       \* logical actions
    NoAction,      \* null
    REPEAT_DELAY   \* in frames

ASSUME GamepadAssumption == NoAction \notin Actions /\ REPEAT_DELAY \in Nat \ {0}

VARIABLES
    plugged,       \* gamepads the browser has announced
    pressed,       \* what readGamepadAction makes of each gamepad
    gamepadCount,
    rafId,         \* rafId is not null
    frames,        \* callbacks that requestAnimationFrame has pending
    heldAction,
    waited,        \* frames since heldLastFired, up to REPEAT_DELAY
    fired          \* the last action handed to handleAction, and its parity

padVars == <<plugged, pressed, gamepadCount, rafId, frames, heldAction, waited, fired>>

Held == Actions \union {NoAction}

GamepadTypeOK ==
    /\ plugged \subseteq Pads
    /\ pressed \in [Pads -> Held]
    /\ gamepadCount = Cardinality(plugged)
    /\ rafId \in BOOLEAN
    /\ frames \in Nat
    /\ heldAction \in Held
    /\ waited \in 0 .. REPEAT_DELAY
    /\ fired \in Held \X BOOLEAN

GamepadInit ==
    /\ plugged = {}
    /\ pressed = [p \in Pads |-> NoAction]
    /\ gamepadCount = 0
    /\ rafId = FALSE /\ frames = 0
    /\ heldAction = NoAction /\ waited = REPEAT_DELAY
    /\ fired = <<NoAction, FALSE>>

\* The player presses, changes or releases a direction or a button.
Press ==
    /\ \E p \in plugged, a \in Held : a # pressed[p] /\ pressed' = [pressed EXCEPT ![p] = a]
    /\ UNCHANGED <<plugged, gamepadCount, rafId, frames, heldAction, waited, fired>>

\* Mutant of Connected: every gamepad starts a loop.
ConnectedStarts ==
    /\ \E p \in Pads \ plugged : plugged' = plugged \union {p}
    /\ gamepadCount' = gamepadCount + 1
    /\ rafId' = TRUE
    /\ frames' = frames + 1
    /\ UNCHANGED <<pressed, heldAction, waited, fired>>

\* gamepadconnected: the first one starts the loop.
Connected ==
    /\ \E p \in Pads \ plugged : plugged' = plugged \union {p}
    /\ gamepadCount' = gamepadCount + 1
    /\ rafId' = TRUE
    /\ frames' = IF rafId THEN frames ELSE frames + 1
    /\ UNCHANGED <<pressed, heldAction, waited, fired>>

\* gamepaddisconnected; the loop finds out on its next frame.
Disconnected ==
    /\ \E p \in plugged :
         /\ plugged' = plugged \ {p}
         /\ pressed' = [pressed EXCEPT ![p] = NoAction]
    /\ gamepadCount' = IF gamepadCount > 0 THEN gamepadCount - 1 ELSE 0
    /\ UNCHANGED <<rafId, frames, heldAction, waited, fired>>

\* Mutant of LastFrame: the loop stops and rafId still names its last frame.
LastFrameStale ==
    /\ frames > 0 /\ gamepadCount = 0
    /\ frames' = frames - 1
    /\ UNCHANGED <<plugged, pressed, gamepadCount, rafId, heldAction, waited, fired>>

\* pollGamepads without a gamepad: the loop stops, and time goes on.
LastFrame ==
    /\ frames > 0 /\ gamepadCount = 0
    /\ frames' = frames - 1
    /\ rafId' = FALSE
    /\ waited' \in {waited, REPEAT_DELAY}
    /\ UNCHANGED <<plugged, pressed, gamepadCount, heldAction, fired>>

handleAction(a) == fired' = <<a, ~fired[2]>>

\* The first gamepad with an action decides; the order is the browser's.
ReadAction(a) ==
    IF \A p \in plugged : pressed[p] = NoAction THEN a = NoAction
    ELSE a \in Actions /\ \E p \in plugged : pressed[p] = a

\* pollGamepads: fire a new action, repeat a held one after a delay, forget a
\* released one; and ask for the next frame.
Frame ==
    /\ frames > 0 /\ gamepadCount > 0
    /\ \E a \in Held :
         /\ ReadAction(a)
         /\ heldAction' = a
         /\ \/ /\ a = NoAction
               /\ waited' = REPEAT_DELAY
               /\ UNCHANGED fired
            \/ /\ a # NoAction
               /\ a # heldAction \/ waited = REPEAT_DELAY
               /\ waited' = 1
               /\ handleAction(a)
            \/ /\ a # NoAction /\ a = heldAction /\ waited < REPEAT_DELAY
               /\ waited' = waited + 1
               /\ UNCHANGED fired
    /\ UNCHANGED <<plugged, pressed, gamepadCount, rafId, frames>>

GamepadNext == Press \/ Connected \/ Disconnected \/ LastFrame \/ Frame

-----------------------------------------------------------------------------
\* However connections, disconnections and frames interleave, one loop runs at
\* most, it runs while a gamepad is there, and rafId tells whether it does.
OneLoop ==
    /\ frames \in {0, 1}
    /\ rafId <=> frames = 1
    /\ plugged # {} => rafId

\* An action that is held on a gamepad is handed on again and again.
HeldRepeats ==
    \A a \in Actions, parity \in BOOLEAN :
        []<>(fired = <<a, parity>> \/ plugged = {} \/ \E p \in plugged : pressed[p] # a)
=============================================================================
