SPECIFICATION RescanSpec
CONSTANTS
    Games <- MCGames
    KeyOf <- MCKeyOf
    Requests = {r1, r2}
    Boot = boot
    Free = free
    Page = r1
    MaxClicks = 2
INVARIANTS
    OneChain
    PollProvesScan
    EnrichKeepsScan
    CatalogFresh
PROPERTIES
    ButtonReturns
