SPECIFICATION ControlsSpec
CONSTANTS
    Contexts = {c1}
    NoGain = noGain
    Volumes <- MCVolumes
    MaxTries = 1
    MaxSaves = 1
    MaxLoads = 1
    None = none
    Empty = empty
    Pads = {g1}
    Actions = {up}
    NoAction = null
    REPEAT_DELAY = 1
CHECK_DEADLOCK FALSE
PROPERTIES
    LoadsTold
