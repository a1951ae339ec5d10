SPECIFICATION ControlsSpec
CONSTANTS
    Contexts = {c1, c2}
    NoGain = noGain
    Volumes <- MCVolumes
    MaxTries = 2
    MaxSaves = 3
    MaxLoads = 1
    None = none
    Empty = empty
    Pads = {g1, g2}
    Actions = {up, ok}
    NoAction = null
    REPEAT_DELAY = 3
CHECK_DEADLOCK FALSE
INVARIANTS
    ControlsTypeOK
    NotTwice
    SliderHeard
    ConfirmedIsKept
    OneLoop
PROPERTIES
    PressesAnswered
    HeldRepeats
