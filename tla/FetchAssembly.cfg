\* A server that always returns the ALL list and may drop body sections.
CONSTANTS
    NumMsgs <- MCNumMsgs
    Body <- MCBody
    Modes <- MCModes
    FilterTypes <- MCFilterTypes
    Limits <- MCLimits
    Offsets <- MCOffsets
    CountOnlyServer = FALSE
    FragmentsMayBeLost = TRUE

SPECIFICATION Spec

INVARIANT AssembledAsSpecified
