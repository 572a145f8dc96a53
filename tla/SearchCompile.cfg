\* Rules read from a file (every tree of depth two, at most two children per node, no UID bounds) and leaf and AND rules under UID bounds that leave a range below "*".
CONSTANTS
    Atoms <- MCAtoms
    Today <- MCToday
    BadDate = BadDate
    UIDWidth <- MCUIDWidth
    Mailbox <- MCMailbox
    Rules <- RulesCompileAndWindow

SPECIFICATION Spec

INVARIANT TypeOK
INVARIANT ValidatedRulesCompile
INVARIANT SearchMatchesRule
