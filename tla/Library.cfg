SPECIFICATION FirstSpec
CONSTANTS
    Games <- Three
    KeyOf <- ThreeKeys
    Requests = {r1}
    Boot = boot
    Free = free
INVARIANTS
    TypeOK
    Exclusive
    StatusHonest
    SettledEnriched
PROPERTIES
    PipelineEnds
    StartupPipelineRuns
