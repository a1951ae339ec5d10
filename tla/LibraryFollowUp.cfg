SPECIFICATION QuietSpec
CONSTANTS
    Games <- MCGames
    KeyOf <- OwnKeys
    Requests = {r1}
    Boot = boot
    Free = free
INVARIANTS
    FollowUpScanShowsCovers
