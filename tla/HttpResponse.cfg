SPECIFICATION Spec
CONSTANTS
    Requests = {q1, q2}
    Probes = {q2}
    Writers = {w1, w2}
    NoWriter = none
INVARIANTS
    WritersExclusive
    FailureNotCached
    LogTellsWire
    BodyDecodes
