\* A server that may answer a search with COUNT and no ALL list and may
\* drop body sections, with any offset: for a rule read from a file
\* (offset 0) the count-only recovery is exact when the matches are
\* messages 1..count.
CONSTANTS
    NumMsgs <- MCNumMsgs
    Body <- MCBody
    Modes <- MCModes
    FilterTypes <- MCFilterTypes
    Limits <- MCLimits
    Offsets <- MCOffsets
    CountOnlyServer = TRUE
    FragmentsMayBeLost = TRUE

SPECIFICATION Spec

INVARIANT CountOnlyExactOnItsPremise
