SPECIFICATION Spec
CONSTANTS
    Pages = {p1, p2}
    Past = past
    None = None
    Empty = Empty
    First = p1
    MaxStarts <- MCStarts
    MaxPosts = 2
    MaxProgress = 1
    UnlistsPlayed = FALSE
INVARIANTS
    TypeOK
    RestoreBeforeSave
    ProgressKept
