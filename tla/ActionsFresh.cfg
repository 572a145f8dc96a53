\* Every action configuration on a mailbox whose UIDs equal its sequence numbers.
CONSTANTS
    UIDs <- MCUIDs
    Inboxes <- MCFreshInboxes
    ActionConfigs <- MCConfigs
    ServerMayFail = TRUE
    StoreSettings <- MCStoreSettings
    MaxAppends = 2

SPECIFICATION Spec

INVARIANT OnlyMatchedMessagesChanged
INVARIANT MatchedMessagesReachDestination
INVARIANT FlaggedMessagesFoundBySearch
