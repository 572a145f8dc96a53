\* A server that may answer a search with COUNT and no ALL list, for rules
\* read from a file (offset 0).
CONSTANTS
    NumMsgs <- MCNumMsgs
    Body <- MCBody
    Modes <- MCModes
    FilterTypes <- MCFilterTypes
    Limits <- MCLimits
    Offsets <- MCYAMLOffsets
    CountOnlyServer = TRUE
    FragmentsMayBeLost = TRUE

SPECIFICATION Spec

INVARIANT ResultIsRequestedPage
