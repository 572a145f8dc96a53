\* Flag names including the bare word important.
CONSTANTS
    UIDs <- MCUIDs
    Inboxes <- MCFreshInboxes
    ActionConfigs <- MCAllConfigs
    ServerMayFail = TRUE
    StoreSettings <- MCStoreSettings
    MaxAppends = 0

SPECIFICATION Spec

INVARIANT FlaggedMessagesFoundBySearch
