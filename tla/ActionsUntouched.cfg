\* A mailbox with gaps between UIDs, and a fresh one holding a message another client flagged \Deleted.
CONSTANTS
    UIDs <- MCUIDs
    Inboxes <- MCUntouchedInboxes
    ActionConfigs <- MCConfigs
    ServerMayFail = TRUE
    StoreSettings <- MCAllStoreSettings
    MaxAppends = 1

SPECIFICATION Spec

INVARIANT OnlyMatchedMessagesChanged
