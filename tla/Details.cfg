SPECIFICATION MCSpec
CONSTANTS
    Games <- MCGames
    KeyOf <- MCKeyOf
    Unfetchable = {2}
    Readers = {r1}
    Fetcher = fetcher
    Corruptible <- Broken
    ReadErrors <- Broken
    Pictures = {cover}
    CoverPicture = cover
INVARIANTS
    MemBacked
    SearchOnlyUnknown
    NoDanglingImage
PROPERTIES
    ResolutionStable
    OutcomesSpec
