\* Rules the compiler reads differently from the spec: leaf rules under every pair of 3-bit UID bounds, NOT and two-child OR rules under bounds, OR rules with three children, and leaves setting before with on or since with within_days.
CONSTANTS
    Atoms <- MCAtoms
    Today <- MCToday
    BadDate = BadDate
    UIDWidth <- MCUIDWidth
    Mailbox <- MCMailbox
    Rules <- RulesMeaning

SPECIFICATION Spec

INVARIANT SearchMatchesRule
