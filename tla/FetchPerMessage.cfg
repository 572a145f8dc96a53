\* The per-message fetcher with a server that returns the match list and may omit body sections.
CONSTANTS
    NumMsgs <- MCNumMsgs
    Body <- MCBody
    Modes <- MCModes
    FilterTypes <- MCFilterTypes
    Limits <- MCLimits
    Offsets <- MCOffsets
    CountOnlyServer = FALSE
    FragmentsMayBeLost = TRUE

SPECIFICATION FairSpec

INVARIANT MissingSectionsKeptEmpty
PROPERTY PerMessageRefinesRetrieval
