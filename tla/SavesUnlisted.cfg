SPECIFICATION Spec
CONSTANTS
    Pages = {p1}
    Past = past
    None = None
    Empty = Empty
    First = p1
    MaxStarts <- MCStarts
    MaxPosts = 1
    MaxProgress = 1
    UnlistsPlayed = TRUE
INVARIANTS
    PastKept
