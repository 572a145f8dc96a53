\* Export after delete, on a fresh mailbox.
CONSTANTS
    UIDs <- MCUIDs
    Inboxes <- MCFreshInboxes
    ActionConfigs <- MCConfigs
    ServerMayFail = TRUE
    StoreSettings <- MCStoreSettings
    MaxAppends = 0

SPECIFICATION Spec

INVARIANT ExportWritesMatchedMessages
