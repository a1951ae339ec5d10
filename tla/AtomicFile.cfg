\* Three calls: enough for one to be durable, a second renamed over it and
\* a third still in flight when the power goes.
SPECIFICATION Spec
CONSTANTS
    Writer = {w1, w2, w3}
    None = None
    Torn = Torn
INVARIANTS
    TypeOK
    TargetWhole
    NoLeftovers
    OnlyCommitted
PROPERTIES
    StoreSpec
