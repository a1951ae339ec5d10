SPECIFICATION Spec
CONSTANTS
    Writer = {w1}
    None = None
    Torn = Torn
PROPERTIES
    AcknowledgedSurvives
